---- MODULE Spec2Model ----
(***************************************************************************)
(* A model of rustYoutube's OAuth device-flow client (src/src/auth.rs):    *)
(* AuthClient::get_access_token, ::authenticate, ::refresh_token,          *)
(* ::is_token_valid, ::load_token and ::save_token, with the token file,   *)
(* the wall clock and the three remote endpoints as the environment.       *)
(*                                                                         *)
(* One action per step of the code between two decisions or await points.  *)
(* Every answer of an endpoint and every outcome of a file write is chosen *)
(* by the environment from a small set.                                    *)
(***************************************************************************)
EXTENDS Integers, Sequences, FiniteSets, TLC

VARIABLES
    file,       \* content of token.json
    now,        \* the clock, in seconds
    pc,         \* position of the call in progress
    entry,      \* the public method the caller invoked
    tok,        \* the local `token` bound by `if let Ok(token) = load_token()`
    reqs,       \* HTTP requests of the call in progress, in order of sending
    sleeps,     \* the tokio::time::sleep calls of the call in progress: the duration
                \* of each and the number of polls sent before it
    saves,      \* outcomes of the save_token calls of the call in progress
    body,       \* the token-endpoint body the call in progress holds: authenticate's
                \* `token_data` of the current loop iteration, or the `data` of the
                \* refresh_token() that returned Ok
    callTime,   \* the clock when the call in progress started
    auth,       \* index in reqs of the first request authenticate() can send, or 0
                \* when the call in progress has not entered authenticate()
    fileStart,  \* content of token.json when the call in progress started
    trail,      \* device-session states the call in progress went through
    deadline,   \* authenticate's local `expires_at` (an Instant)
    interval,   \* authenticate's local `poll_interval`
    result,     \* what the call returned
    prev,       \* summary of the previous completed call
    calls,      \* number of calls started
    lim,        \* how far this run is followed: the last instant of the clock, the
                \* polls of a device session, and the expires_in values the
                \* device endpoint hands out
    main,       \* position of main()
    env,        \* what AuthClient::new finds: GOOGLE_CLIENT_ID, GOOGLE_CLIENT_SECRET
                \* and a configuration directory
    exit,       \* what main() returned
    dl,         \* the download_video tasks the UI spawned: position, the child each
                \* waits for, and what each returned
    child,      \* the yt-dlp processes of the downloads
    slot,       \* the UI's download_handle: Arc<Mutex<Option<Child>>>
    cancel,     \* the latest press of 'c': what it found in the slot, the children
                \* that ran then and the downloads that had stored their handle;
                \* and the children all presses of 'c' took out of the slot
    dep,        \* position of ensure_dependencies, what ensure_mpv and ensure_ytdlp
                \* returned, and the latest availability check of each tool since
                \* its last install attempt
    reach,      \* the tools that run: a local copy or a command on the PATH
    hist,       \* the lines of history.txt, or NoFile
    hcall,      \* the latest add_to_history call: its argument, the lines of the
                \* file before it, and whether it returned Ok
    upd,        \* the update check of yt-dlp: the data directory, the content of
                \* yt-dlp_last_check.txt, the clock, the times of the update
                \* checks performed, and the latest ensure_ytdlp call
    play,       \* the play_video call: its position, the formats of the yt-dlp
                \* processes it launched, how those that were waited for exited,
                \* the number that run, and what the call returned
    nav         \* the UI's navigation state: view_mode, whether selected_channel_id
                \* is Some, channel_tab, the lengths of the three lists and the
                \* selections of the two list states; the list the PlaylistVideos
                \* view was opened from and what the last Esc in it did; the
                \* lengths of all_videos and all_shorts, current_page, the row
                \* video_list_state selects, and whether play and download
                \* indexed the list inside it

vars == <<file, now, pc, entry, tok, reqs, sleeps, saves, body, callTime, auth,
          fileStart, trail, deadline, interval, result, prev, calls, lim,
          main, env, exit, dl, child, slot, cancel, dep, reach, nav, play,
          hist, hcall, upd>>

\* the state of main()
mainVars == <<main, env, exit>>

\* the state of the downloads
dlVars == <<dl, child, slot, cancel>>

\* the state of ensure_dependencies
depVars == <<dep, reach>>

\* the state of the components that run beside main(), the AuthClient and the
\* downloads
\* the state of the watch history
histVars == <<hist, hcall>>

\* the state of the components of youtube.rs and of the helpers of the others
lateVars == <<histVars, upd>>

extVars == <<depVars, nav, play, lateVars>>

\* the state the steps of the AuthClient leave alone
outside == <<mainVars, dlVars, extVars>>

\* the state of the AuthClient and of the call in progress on it
authVars == <<file, now, pc, entry, tok, reqs, sleeps, saves, body, callTime, auth,
              fileStart, trail, deadline, interval, result, prev, calls, lim>>

----------------------------------------------------------------------------
(* Bounds of the model *)

\* last instant of the clock
MaxTime == 4

\* calls a caller that keeps the AuthClient makes one after another
MaxCalls == 2

\* polls of one device session
MaxPolls == 2

\* last instant of the clock when one device session is followed for longer
MaxSessionTime == 6

\* polls of a device session that is followed for longer
MaxSessionPolls == 3

\* last instant of the clock when a session that is never granted is followed
\* to its end
MaxWaitingTime == 10

\* downloads the user starts in one run of the UI
MaxDownloads == 2

\* times the user presses 'c' in one run of the UI
MaxCancels == 2

\* length of the longest list a load returns
MaxList == 2

\* videos on a page: the VIDEOS_PER_PAGE = 20 of ui::run, scaled down
VideosPerPage == 2

\* length of the longest list of videos, and of shorts, a load returns
MaxVideos == 3

\* lines the history file keeps: the 200 of add_to_history, scaled down
HistoryLimit == 3

\* add_to_history calls in one run
MaxAdds == 4

\* `one_day` of should_check_for_updates, 24 * 60 * 60 seconds, in half days
OneDay == 2

\* the last instant of the wall clock, in half days
MaxUpdTime == 6

\* ensure_ytdlp calls in one run
MaxEnsures == 4

----------------------------------------------------------------------------
(* Values *)

\* Option::None of an Option<String>
NULL == "<null>"

\* Option::None of an Option<u64>
NoTime == -1

\* first reading of the clock
StartTime == 1

Rec(a, r, e) ==
    [kind |-> "record", access_token |-> a, refresh_token |-> r, expires_at |-> e]

\* token.json does not exist: fs::read_to_string fails
Absent == [kind |-> "absent", access_token |-> "", refresh_token |-> NULL, expires_at |-> NoTime]

\* token.json exists and serde_json::from_str fails on it
Corrupt == [kind |-> "corrupt", access_token |-> "", refresh_token |-> NULL, expires_at |-> NoTime]

NoTok == [kind |-> "none", access_token |-> "", refresh_token |-> NULL, expires_at |-> NoTime]

\* token files the program can find at start-up: none, an unreadable one, or a
\* record written by an earlier run
InitialFiles ==
    {Absent, Corrupt}
      \cup {Rec("A", r, e) : r \in {NULL, "R"}, e \in {NoTime, 0, 1, 3}}

\* answers of the probe GET: 2xx, another status, or a transport failure
ProbeOutcomes == {"ok", "status", "transport"}

\* what fs::create_dir_all + fs::write can do: write the file, fail before the
\* file is opened, or fail after File::create truncated it
SaveOutcomes == {"ok", "fail_untouched", "fail_truncated"}

\* latency of one HTTP request, in seconds
Latencies == {0, 1}

\* values of the device-code response
DeviceExpiresIn == {0, 2}
Intervals == {0, 1}

\* expires_in of the device-code response of a session that is followed for longer
SessionExpiresIn == {0, 2, 4}

\* token files in front of a session that is followed for longer
SessionFiles == {Absent, Rec("A", "R", NoTime)}

\* fields of a token-endpoint response body
RespAccess == {NULL, "", "B"}
RespRefresh == {NULL, "R2"}
RespExpiresIn == {NoTime, 2}
RespError == {NULL, "", "authorization_pending", "slow_down", "access_denied"}

\* the errors of a user who never completes the authorization
WaitingErrors == {"authorization_pending", "slow_down"}

\* how far a run of one call is followed, and how far a long device session:
\* the last instant of the clock, the polls of a session, the expires_in values
\* and the poll errors the endpoints hand out, and whether the requests and
\* sleeps of the call are all kept or only the latest of each
Horizon ==
    [time |-> MaxTime, polls |-> MaxPolls, expires |-> DeviceExpiresIn,
     errors |-> RespError, log |-> TRUE]
SessionHorizon ==
    [time |-> MaxSessionTime, polls |-> MaxSessionPolls, expires |-> SessionExpiresIn,
     errors |-> RespError, log |-> TRUE]

\* a session that is never granted, followed until it ends
WaitingHorizon ==
    [time |-> MaxWaitingTime, polls |-> 2, expires |-> DeviceExpiresIn,
     errors |-> WaitingErrors, log |-> FALSE]

\* refresh_token and expires_in of a poll body are read only on the arm that
\* has no error and an access_token; on the other arms they are left out
PollRefresh(e, a) == IF e = NULL /\ a # NULL THEN RespRefresh ELSE {NULL}
PollExpiresIn(e, a) == IF e = NULL /\ a # NULL THEN RespExpiresIn ELSE {NoTime}

\* no body of the token endpoint was parsed yet
NoBody == [error |-> NULL, access_token |-> NULL, refresh_token |-> NULL,
           expires_in |-> NoTime, seen |-> FALSE]

Body(e, a, r, x) ==
    [error |-> e, access_token |-> a, refresh_token |-> r, expires_in |-> x,
     seen |-> TRUE]

\* what a call returns: Ok(token), with the place the token came from, or an
\* error, with the text of the server it carries
NoResult == [kind |-> "none", value |-> "", src |-> "none", msg |-> ""]
Ok(v, s) == [kind |-> "ok", value |-> v, src |-> s, msg |-> ""]
Err(e) == [kind |-> "err", value |-> e, src |-> "none", msg |-> ""]

\* anyhow!("Authorization error: {}", error)
Denied(error) == [Err("authorization_error") EXCEPT !.msg = error]

NoPrev == [entry |-> "none", stayedValid |-> FALSE, result |-> NoResult, nProbe |-> 0,
           nPost |-> 0, writes |-> 0, fileStart |-> Absent]

Req(k, a) == [kind |-> k, arg |-> a, res |-> "pending"]

\* the request list with the answer of the request in flight filled in
Answered(rs, o) == [rs EXCEPT ![Len(rs)].res = o]

Count(rs, kinds) == Cardinality({i \in 1..Len(rs) : rs[i].kind \in kinds})

\* one tokio::time::sleep(d) of the poll loop, entered when rs had been sent
Slept(d, rs) == [d |-> d, after |-> Count(rs, {"poll"})]

----------------------------------------------------------------------------
(* Pure parts of the code *)

\* a load_token that hands out whatever it finds
LoadAnything(f) == TRUE

\* load_token returns Ok: the file was read and parsed
LoadOk(f) == f.kind = "record"

\* the timestamp test with its comparison turned round
ExpiryInverted(token, t) ==
    ~(token.expires_at # NoTime /\ t <= token.expires_at)

\* is_token_valid, the timestamp test: FALSE is the early `return false`
ExpiryPasses(token, t) ==
    ~(token.expires_at # NoTime /\ t >= token.expires_at)

\* the verdict of a probe that takes any HTTP answer for a success
ProbeAnyResponse(outcome) == outcome # "transport"

\* the verdict of a probe that takes a 2xx for a failure
ProbeNegated(outcome) == outcome # "ok"

\* is_token_valid, the verdict on the probe
ProbeSucceeded(outcome) == outcome = "ok"

\* `.map(|d| now + d)` on an Option<u64>
ExpiresAt(expires_in, t) == IF expires_in = NoTime THEN NoTime ELSE t + expires_in

\* a TokenData that stores the lifetime where the expiry instant belongs
GrantRecordRelative(resp, t) ==
    Rec(resp.access_token, resp.refresh_token, resp.expires_in)

\* a TokenData that keeps the stored refresh_token when the response has none
GrantRecordKeepsRefresh(resp, t) ==
    Rec(resp.access_token,
        IF resp.refresh_token = NULL /\ file.kind = "record"
        THEN file.refresh_token ELSE resp.refresh_token,
        ExpiresAt(resp.expires_in, t))

\* the TokenData authenticate builds from a poll response
GrantRecord(resp, t) ==
    Rec(resp.access_token, resp.refresh_token, ExpiresAt(resp.expires_in, t))

\* a TokenData that takes its refresh_token from the refresh response
RefreshRecordFromResponse(resp, rt, t) ==
    Rec(resp.access_token, resp.refresh_token, ExpiresAt(resp.expires_in, t))

\* the TokenData refresh_token builds; rt is the refresh token sent
RefreshRecord(resp, rt, t) ==
    Rec(resp.access_token, rt, ExpiresAt(resp.expires_in, t))

\* a save_token that leaves the new record behind also when it reports a failure
SaveTokenWritesAnyway(f, rec, outcome) == rec

\* save_token
SaveToken(f, rec, outcome) ==
    CASE outcome = "ok" -> rec
      [] outcome = "fail_truncated" -> Corrupt
      [] OTHER -> f

\* number of times the token file was opened for writing
Writes(sv) == Cardinality({i \in 1..Len(sv) : sv[i] # "fail_untouched"})

----------------------------------------------------------------------------
(* State after construction: AuthClient::new only computes the path *)

\* main() has constructed the AuthClient and is about to use it
Constructed ==
    /\ main = "auth"
    /\ env = [id |-> TRUE, secret |-> TRUE, dir |-> TRUE]
    /\ exit = "none"

\* a download_video task that was not spawned yet
NoTask == [pc |-> "unused", held |-> 0, result |-> "none"]

\* no press of 'c' yet
NoCancel == [n |-> 0, found |-> 0, running |-> {}, stored |-> {}, took |-> {}]

\* the UI has not spawned a download
NoDownloads ==
    /\ dl = [d \in 1..MaxDownloads |-> NoTask]
    /\ child = [d \in 1..MaxDownloads |-> "none"]
    /\ slot = 0
    /\ cancel = NoCancel

\* ensure_dependencies was not called
NoDeps ==
    /\ dep = [os |-> "none", tool |-> "none", at |-> "idle", i |-> 0,
              res |-> [t \in {"mpv", "ytdlp"} |-> "none"],
              check |-> [t \in {"mpv", "ytdlp"} |-> "none"],
              overall |-> "none"]
    /\ reach = {}

\* ListState::default(): nothing is selected
NoSel == -1

\* no Esc was pressed in the PlaylistVideos view
NoEsc == [from |-> "none", to |-> "none"]

\* the locals of ui::run before the first key
NoNav ==
    nav = [view |-> "MainMenu", chan |-> FALSE, tab |-> 0,
           subs |-> 0, pls |-> 0, cpls |-> 0, subSel |-> NoSel, plSel |-> NoSel,
           origin |-> "none", esc |-> NoEsc,
           videos |-> 0, shorts |-> 0, page |-> 0, vidSel |-> NoSel, acted |-> "none"]

\* play_video was not called
NoPlay ==
    play = [pc |-> "idle", attempt |-> 0, launched |-> <<>>, exits |-> <<>>,
            live |-> 0, result |-> "none"]

\* there is no history file
NoFile == <<"<none>">>

\* add_to_history was not called
NoHistory ==
    /\ hist = NoFile
    /\ hcall = [v |-> <<>>, before |-> NoFile, ok |-> FALSE, n |-> 0]

\* yt-dlp_last_check.txt does not exist
NoStamp == -1

\* yt-dlp_last_check.txt does not hold a number
Garbage == -2

\* no ensure_ytdlp call was made
NoEnsure == [n |-> 0, found |-> FALSE, recorded |-> FALSE, checked |-> FALSE]

NoUpdates ==
    upd = [data |-> "present", stamp |-> NoStamp, t |-> 0, checks |-> <<>>,
           call |-> NoEnsure]

NoLate == NoHistory /\ NoUpdates

\* the other components are not running
NoExt == NoDeps /\ NoNav /\ NoPlay /\ NoLate

AuthStart(files, horizon) ==
    /\ file \in files
    /\ lim = horizon
    /\ now = StartTime
    /\ pc = "idle"
    /\ entry = "none"
    /\ tok = NoTok
    /\ reqs = <<>>
    /\ sleeps = <<>>
    /\ saves = <<>>
    /\ body = NoBody
    /\ callTime = StartTime
    /\ auth = 0
    /\ fileStart = file
    /\ trail = <<>>
    /\ deadline = 0
    /\ interval = 0
    /\ result = NoResult
    /\ prev = NoPrev
    /\ calls = 0

\* an AuthClient exists and no call was made on it
Start(files, horizon) ==
    AuthStart(files, horizon) /\ Constructed /\ NoDownloads /\ NoExt

Init == Start(InitialFiles, Horizon)

\* the same program in front of a device session that is followed for longer
InitSession == Start(SessionFiles, SessionHorizon)

\* the same program in front of a user who never completes the authorization
InitWaiting == Start(SessionFiles, WaitingHorizon)

\* an entry is added to a history of the call in progress
Log(history, x) == IF lim.log THEN Append(history, x) ELSE <<x>>

\* `return r` of the public method
Return(r) ==
    /\ pc' = "done"
    /\ result' = r

\* an HTTP request is sent and awaited
Send(k, a, at) ==
    /\ reqs' = Log(reqs, Req(k, a))
    /\ pc' = at

\* the awaited request is answered with o after dt seconds
Answer(o, dt) ==
    /\ now + dt <= lim.time
    /\ now' = now + dt
    /\ reqs' = Answered(reqs, o)

----------------------------------------------------------------------------
(* get_access_token *)

\* the caller invokes get_access_token, for at most `limit` calls in all
GatCall(limit) ==
    /\ pc = "idle"
    /\ calls < limit
    /\ calls' = calls + 1
    /\ entry' = "get_access_token"
    /\ fileStart' = file
    /\ callTime' = now
    /\ pc' = "G_load"
    /\ UNCHANGED <<lim, outside, file, now, tok, reqs, sleeps, saves, body, auth, trail, deadline,
                   interval, result, prev>>

\* `if let Ok(token) = self.load_token().await`
GatLoad ==
    /\ pc = "G_load"
    /\ IF LoadOk(file)
         THEN tok' = file /\ pc' = "G_valid"
         ELSE tok' = NoTok /\ pc' = "A_load"
    /\ UNCHANGED <<lim, outside, file, now, entry, reqs, sleeps, saves, body, callTime, auth,
                   fileStart, trail, deadline, interval, result, prev, calls>>

\* is_token_valid up to its await: the timestamp test, then the probe is sent
GatExpiryCheck ==
    /\ pc = "G_valid"
    /\ IF ExpiryPasses(tok, now)
         THEN Send("probe", tok.access_token, "G_probe")
         ELSE reqs' = reqs /\ pc' = "G_refresh_decide"
    /\ UNCHANGED <<lim, outside, file, now, entry, tok, sleeps, saves, body, callTime, auth,
                   fileStart, trail, deadline, interval, result, prev, calls>>

\* the probe is answered: `return Ok(token.access_token)` or go on
GatProbeRecv ==
    /\ pc = "G_probe"
    /\ \E o \in ProbeOutcomes, dt \in Latencies :
         /\ Answer(o, dt)
         /\ IF ProbeSucceeded(o)
              THEN Return(Ok(tok.access_token, "cache"))
              ELSE pc' = "G_refresh_decide" /\ result' = result
    /\ UNCHANGED <<lim, outside, file, entry, tok, sleeps, saves, body, callTime, auth, fileStart,
                   trail, deadline, interval, prev, calls>>

\* the test for a refresh token, negated
WantsRefreshInverted(token) == token.refresh_token = NULL

\* `if let Some(refresh_token) = &token.refresh_token`
WantsRefresh(token) == token.refresh_token # NULL

\* the refresh POST is sent, or control reaches self.authenticate()
GatRefreshDecide ==
    /\ pc = "G_refresh_decide"
    /\ IF WantsRefresh(tok)
         THEN Send("refresh", tok.refresh_token, "G_refresh")
         ELSE reqs' = reqs /\ pc' = "A_load"
    /\ UNCHANGED <<lim, outside, file, now, entry, tok, sleeps, saves, body, callTime, auth,
                   fileStart, trail, deadline, interval, result, prev, calls>>

\* a get_access_token that hands the error of refresh_token() to its caller
RefreshPropagates(e) == [pc |-> "done", result |-> Err("refresh_failed")]

\* a get_access_token that returns the token it had loaded
RefreshReturnOld(new_token, old_token) == Ok(old_token.access_token, "refresh")

\* a get_access_token that tries the refresh again
RefreshRetries(e) == [pc |-> "G_refresh_decide", result |-> NoResult]

\* what get_access_token does when refresh_token() returned Err(e):
\* `if let Ok(..)` drops the error and control reaches self.authenticate()
RefreshFailed(e) == [pc |-> "A_load", result |-> NoResult]

\* what get_access_token returns when refresh_token() returned Ok(new_token)
RefreshReturn(new_token, old_token) == Ok(new_token.access_token, "refresh")

\* refresh_token() fails before it has a body: transport failure, non-success
\* status, or a body that is not JSON
GatRefreshFail ==
    /\ pc = "G_refresh"
    /\ \E o \in {"transport", "status", "parse"}, dt \in Latencies :
         /\ Answer(o, dt)
         /\ pc' = RefreshFailed(o).pc
         /\ result' = RefreshFailed(o).result
    /\ UNCHANGED <<lim, outside, file, entry, tok, sleeps, saves, body, callTime, auth, fileStart,
                   trail, deadline, interval, prev, calls>>

\* refresh_token() got a 2xx JSON body
GatRefreshBody ==
    /\ pc = "G_refresh"
    /\ \E a \in RespAccess, r \in RespRefresh, x \in RespExpiresIn,
          dt \in Latencies, sv \in SaveOutcomes :
         LET resp == Body(NULL, a, r, x)
             sent == reqs[Len(reqs)].arg
             rec == RefreshRecord(resp, sent, now + dt)
         IN  /\ Answer(IF a = NULL THEN "no_access_token" ELSE "ok", dt)
             /\ IF a = NULL
                  THEN \* .context("No access token in response")?
                       /\ sv = "ok"
                       /\ file' = file /\ saves' = saves /\ body' = body
                       /\ pc' = RefreshFailed("no_access_token").pc
                       /\ result' = RefreshFailed("no_access_token").result
                  ELSE /\ file' = SaveToken(file, rec, sv)
                       /\ saves' = Append(saves, sv)
                       /\ IF sv = "ok"
                            THEN body' = resp /\ Return(RefreshReturn(rec, tok))
                            ELSE /\ body' = body
                                 /\ pc' = RefreshFailed("save").pc
                                 /\ result' = RefreshFailed("save").result
    /\ UNCHANGED <<lim, outside, entry, tok, sleeps, callTime, auth, fileStart, trail, deadline,
                   interval, prev, calls>>

----------------------------------------------------------------------------
(* authenticate *)

\* the caller invokes authenticate directly (it is a pub method)
AuthCall(limit) ==
    /\ pc = "idle"
    /\ calls < limit
    /\ calls' = calls + 1
    /\ entry' = "authenticate"
    /\ fileStart' = file
    /\ callTime' = now
    /\ pc' = "A_load"
    /\ UNCHANGED <<lim, outside, file, now, tok, reqs, sleeps, saves, body, auth, trail, deadline,
                   interval, result, prev>>

\* an authenticate that does not look at the record it loaded
AfterLoadAlwaysDevice(f) == "A_device"

\* where authenticate goes after load_token: to the validity check of a record
\* it could parse, and to the device flow otherwise
AfterLoad(f) == IF LoadOk(f) THEN "A_valid" ELSE "A_device"

\* authenticate is entered: `if let Ok(token) = self.load_token().await`
AuthLoad ==
    /\ pc = "A_load"
    /\ auth' = Len(reqs) + 1
    /\ tok' = IF LoadOk(file) THEN file ELSE NoTok
    /\ pc' = AfterLoad(file)
    /\ UNCHANGED <<lim, outside, file, now, entry, reqs, sleeps, saves, body, callTime, fileStart,
                   trail, deadline, interval, result, prev, calls>>

\* is_token_valid up to its await
AuthExpiryCheck ==
    /\ pc = "A_valid"
    /\ IF ExpiryPasses(tok, now)
         THEN Send("probe", tok.access_token, "A_probe")
         ELSE reqs' = reqs /\ pc' = "A_device"
    /\ UNCHANGED <<lim, outside, file, now, entry, tok, sleeps, saves, body, callTime, auth,
                   fileStart, trail, deadline, interval, result, prev, calls>>

\* the probe is answered: `return Ok(token.access_token)` or start the device flow
AuthProbeRecv ==
    /\ pc = "A_probe"
    /\ \E o \in ProbeOutcomes, dt \in Latencies :
         /\ Answer(o, dt)
         /\ IF ProbeSucceeded(o)
              THEN Return(Ok(tok.access_token, "cache"))
              ELSE pc' = "A_device" /\ result' = result
    /\ UNCHANGED <<lim, outside, file, entry, tok, sleeps, saves, body, callTime, auth, fileStart,
                   trail, deadline, interval, prev, calls>>

\* Step 1: the device-code POST is sent (state Requesting)
AuthDeviceSend ==
    /\ pc = "A_device"
    /\ Send("device", "", "A_device_wait")
    /\ trail' = Append(trail, "Requesting")
    /\ UNCHANGED <<lim, outside, file, now, entry, tok, sleeps, saves, body, callTime, auth,
                   fileStart, deadline, interval, result, prev, calls>>

\* answers of the device-code POST: a 2xx DeviceCodeResponse, a transport
\* failure, another status with a body that can be read or one that cannot, or
\* a 2xx body that is not a DeviceCodeResponse
DeviceOutcomes == {"ok", "transport", "status", "status_unreadable", "parse"}

\* an authenticate without the test of the status
DeviceAcceptedAnyStatus(o) == o \in {"ok", "status"}

\* the device-code POST got through `.send().await?`, the test of
\* status().is_success() and `.json().await?`
DeviceAccepted(o) == o = "ok"

\* the device-code POST fails: transport failure, non-success status (the error
\* is built from the body, or is the failure to read it), or a body that is not
\* a DeviceCodeResponse
AuthDeviceFail ==
    /\ pc = "A_device_wait"
    /\ \E o \in DeviceOutcomes, dt \in Latencies :
         /\ ~DeviceAccepted(o)
         /\ Answer(o, dt)
         /\ Return(Err(CASE o = "transport" -> "device_code_transport"
                         [] o = "status" -> "device_code_failed"
                         [] o = "status_unreadable" -> "device_code_body"
                         [] OTHER -> "device_code_parse"))
    /\ UNCHANGED <<lim, outside, file, entry, tok, sleeps, saves, body, callTime, auth, fileStart,
                   trail, deadline, interval, prev, calls>>

\* Step 2 and the two `let`s of step 3: the codes are printed, poll_interval and
\* the deadline are fixed (state AwaitingUser)
AuthDeviceRecv ==
    /\ pc = "A_device_wait"
    /\ \E o \in DeviceOutcomes, x \in lim.expires, iv \in Intervals, dt \in Latencies :
         /\ DeviceAccepted(o)
         /\ Answer(o, dt)
         /\ interval' = iv
         /\ deadline' = now + dt + x
    /\ trail' = Append(trail, "AwaitingUser")
    /\ pc' = "A_check"
    /\ UNCHANGED <<lim, outside, file, entry, tok, sleeps, saves, body, callTime, auth, fileStart,
                   result, prev, calls>>

\* an authenticate that asks for a new device code when the old one has expired
OnExpiredRestarts == [pc |-> "A_device", result |-> NoResult]

\* what authenticate does when the deadline has passed:
\* `return Err(anyhow!("Device code expired. Please try again."))`
OnExpired == [pc |-> "done", result |-> Err("device_code_expired")]

\* a deadline test that never fires
DeadlineNeverPasses(t, d) == FALSE

\* `Instant::now() > expires_at`
DeadlinePassed(t, d) == t > d

\* top of the loop: `if Instant::now() > expires_at`, else the sleep starts
AuthDeadlineCheck ==
    /\ pc = "A_check"
    /\ IF DeadlinePassed(now, deadline)
         THEN /\ pc' = OnExpired.pc
              /\ result' = OnExpired.result
              /\ trail' = Append(trail, "Expired")
         ELSE /\ pc' = "A_sleep"
              /\ result' = result
              /\ trail' = trail
    /\ body' = NoBody
    /\ UNCHANGED <<lim, outside, file, now, entry, tok, reqs, sleeps, saves, callTime, auth,
                   fileStart, deadline, interval, prev, calls>>

\* tokio::time::sleep(poll_interval) ends and the poll is sent
AuthSleep ==
    /\ pc = "A_sleep"
    /\ Count(reqs, {"poll"}) < lim.polls
    /\ now + interval <= lim.time
    /\ now' = now + interval
    /\ sleeps' = Log(sleeps, Slept(interval, reqs))
    /\ Send("poll", "", "A_poll")
    /\ UNCHANGED <<lim, outside, file, entry, tok, saves, body, callTime, auth, fileStart, trail,
                   deadline, interval, result, prev, calls>>

\* a loop that goes round again when a poll fails
PollFailedRetries(o) == [pc |-> "A_check", result |-> NoResult]

\* what authenticate does when the poll fails with o: the `?` of
\* `.send().await?` and of `.json().await?` returns the error
PollFailed(o) ==
    [pc |-> "done",
     result |-> Err(IF o = "transport" THEN "poll_transport" ELSE "poll_parse")]

\* the poll fails: `.send().await?` or `.json().await?`
AuthPollFail ==
    /\ pc = "A_poll"
    /\ \E o \in {"transport", "parse"}, dt \in Latencies :
         /\ Answer(o, dt)
         /\ pc' = PollFailed(o).pc
         /\ result' = PollFailed(o).result
    /\ UNCHANGED <<lim, outside, file, entry, tok, sleeps, saves, body, callTime, auth, fileStart,
                   trail, deadline, interval, prev, calls>>

\* a `match` whose "authorization_pending" arm falls into the arm of the other errors
PollVerdictPendingDenies(resp) ==
    CASE resp.error = "slow_down" -> "slow_down"
      [] resp.error # NULL -> "denied"
      [] resp.access_token # NULL -> "granted"
      [] OTHER -> "empty"

\* a `match` without its `_` arm: an unknown error is passed over
PollVerdictDeniedIgnored(resp) ==
    CASE resp.error = "authorization_pending" -> "pending"
      [] resp.error = "slow_down" -> "slow_down"
      [] resp.access_token # NULL /\ resp.error = NULL -> "granted"
      [] OTHER -> "empty"

\* a loop that looks for the access_token before it looks at the error
PollVerdictTokenFirst(resp) ==
    CASE resp.access_token # NULL -> "granted"
      [] resp.error = "authorization_pending" -> "pending"
      [] resp.error = "slow_down" -> "slow_down"
      [] resp.error # NULL -> "denied"
      [] OTHER -> "empty"

\* a loop that gives up on a body with neither an error nor an access_token
PollVerdictEmptyDenies(resp) ==
    CASE resp.error = "authorization_pending" -> "pending"
      [] resp.error = "slow_down" -> "slow_down"
      [] resp.error # NULL -> "denied"
      [] resp.access_token # NULL -> "granted"
      [] OTHER -> "denied"

\* what the poll loop does with a TokenPollResponse: the `match` on error, then
\* the `if let Some(access_token)`
PollVerdict(resp) ==
    CASE resp.error = "authorization_pending" -> "pending"
      [] resp.error = "slow_down" -> "slow_down"
      [] resp.error # NULL -> "denied"
      [] resp.access_token # NULL -> "granted"
      [] OTHER -> "empty"

\* an authenticate that drops the result of save_token
GrantResultSaveIgnored(resp, sv) == Ok(resp.access_token, "grant")

\* what authenticate returns after a grant: `self.save_token(..).await?`, then
\* `return Ok(access_token)`
GrantResult(resp, sv) ==
    IF sv = "ok" THEN Ok(resp.access_token, "grant") ELSE Err("save_failed")

\* the poll is answered with a body that parses
AuthPollRecv ==
    /\ pc = "A_poll"
    /\ \E e \in lim.errors, a \in RespAccess, dt \in Latencies, sv \in SaveOutcomes :
       \E r \in PollRefresh(e, a), x \in PollExpiresIn(e, a) :
         LET resp == Body(e, a, r, x)
             v == PollVerdict(resp)
             rec == GrantRecord(resp, now + dt)
         IN  /\ Answer(IF e = NULL THEN "ok" ELSE e, dt)
             /\ body' = resp
             /\ CASE v = "pending" ->
                       /\ sv = "ok"
                       /\ pc' = "A_check"
                       /\ UNCHANGED <<file, saves, result, trail>>
                  [] v = "slow_down" ->
                       /\ sv = "ok"
                       /\ pc' = "A_slow"
                       /\ UNCHANGED <<file, saves, result, trail>>
                  [] v = "denied" ->
                       /\ sv = "ok"
                       /\ Return(Denied(resp.error))
                       /\ trail' = Append(trail, "Denied")
                       /\ UNCHANGED <<file, saves>>
                  [] v = "granted" ->
                       /\ file' = SaveToken(file, rec, sv)
                       /\ saves' = Append(saves, sv)
                       /\ Return(GrantResult(resp, sv))
                       /\ trail' = IF sv = "ok" THEN Append(trail, "Granted") ELSE trail
                  [] OTHER ->
                       /\ sv = "ok"
                       /\ pc' = "A_check"
                       /\ UNCHANGED <<file, saves, result, trail>>
    /\ UNCHANGED <<lim, outside, entry, tok, sleeps, callTime, auth, fileStart, deadline, interval,
                   prev, calls>>

\* the "slow_down" arm: tokio::time::sleep(poll_interval * 2), then `continue`
AuthSlowDownSleep ==
    /\ pc = "A_slow"
    /\ now + 2 * interval <= lim.time
    /\ now' = now + 2 * interval
    /\ sleeps' = Log(sleeps, Slept(2 * interval, reqs))
    /\ pc' = "A_check"
    /\ UNCHANGED <<lim, outside, file, entry, tok, reqs, saves, body, callTime, auth, fileStart,
                   trail, deadline, interval, result, prev, calls>>

----------------------------------------------------------------------------
(* The caller *)

\* the environment of the call in progress kept the record it started with valid:
\* the record has not reached its expires_at and every probe was answered 2xx
StayedValid ==
    /\ fileStart.kind = "record"
    /\ (fileStart.expires_at = NoTime \/ now < fileStart.expires_at)
    /\ \A i \in 1..Len(reqs) : reqs[i].kind = "probe" => reqs[i].res = "ok"

\* what is remembered of a call once it has returned
Summary ==
    IF StayedValid
      THEN [entry |-> entry, stayedValid |-> TRUE, result |-> result,
            nProbe |-> Count(reqs, {"probe"}),
            nPost |-> Count(reqs, {"refresh", "device", "poll"}),
            writes |-> Writes(saves), fileStart |-> fileStart]
      ELSE [NoPrev EXCEPT !.entry = entry]

\* the caller takes the result; the locals of the call are gone
Finish ==
    /\ pc = "done"
    /\ pc' = "idle"
    /\ prev' = Summary
    /\ entry' = "none"
    /\ tok' = NoTok
    /\ reqs' = <<>>
    /\ sleeps' = <<>>
    /\ saves' = <<>>
    /\ body' = NoBody
    /\ callTime' = now
    /\ auth' = 0
    /\ fileStart' = file
    /\ trail' = <<>>
    /\ deadline' = 0
    /\ interval' = 0
    /\ result' = NoResult
    /\ UNCHANGED <<lim, outside, file, now, calls>>

\* time passes between two calls
Tick ==
    /\ pc = "idle"
    /\ now < lim.time
    /\ now' = now + 1
    /\ callTime' = now + 1
    /\ UNCHANGED <<lim, outside, file, pc, entry, tok, reqs, sleeps, saves, body, auth, fileStart,
                   trail, deadline, interval, result, prev, calls>>

\* the steps of a call up to the moment the device session waits for the user
CallSteps ==
    \/ GatLoad \/ GatExpiryCheck \/ GatProbeRecv \/ GatRefreshDecide
    \/ GatRefreshFail \/ GatRefreshBody
    \/ AuthLoad \/ AuthExpiryCheck \/ AuthProbeRecv
    \/ AuthDeviceSend \/ AuthDeviceFail \/ AuthDeviceRecv

\* the poll loop of authenticate
PollSteps ==
    \/ AuthDeadlineCheck \/ AuthSleep \/ AuthPollFail \/ AuthPollRecv
    \/ AuthSlowDownSleep

\* one run of the program: main calls get_access_token once (main.rs:47); a
\* direct call of authenticate stands for any other user of the pub method
Next ==
    \/ GatCall(1) \/ AuthCall(1)
    \/ CallSteps
    \/ PollSteps

Spec == Init /\ [][Next]_vars

\* a caller that keeps the client and calls it again and again; a device
\* session, once it waits for the user, is left waiting
NextReuse ==
    \/ GatCall(MaxCalls) \/ AuthCall(MaxCalls)
    \/ CallSteps
    \/ Finish \/ Tick

SpecReuse == Init /\ [][NextReuse]_vars

\* one direct call of authenticate, its device session followed for longer
NextSession ==
    \/ AuthCall(1)
    \/ AuthLoad \/ AuthExpiryCheck \/ AuthProbeRecv
    \/ AuthDeviceSend \/ AuthDeviceFail \/ AuthDeviceRecv
    \/ PollSteps

SpecSession == InitSession /\ [][NextSession]_vars

\* one direct call of authenticate whose polls are all answered
\* authorization_pending or slow_down, followed until it returns
NextWaiting ==
    \/ AuthCall(1)
    \/ AuthLoad \/ AuthExpiryCheck \/ AuthProbeRecv
    \/ AuthDeviceSend \/ AuthDeviceFail \/ AuthDeviceRecv
    \/ AuthDeadlineCheck \/ AuthSleep \/ AuthPollRecv \/ AuthSlowDownSleep

\* the runtime runs the call whenever it can go on and every request is
\* answered; a round trip takes time, so of the polls of a session that goes on
\* for ever, some take a second of the clock
SpecWaiting ==
    /\ InitWaiting
    /\ [][NextWaiting]_vars
    /\ WF_vars(NextWaiting)
    /\ SF_vars(AuthPollRecv /\ now' > now)

----------------------------------------------------------------------------
(* main *)

\* what the process can find at start-up
Environments == [id : BOOLEAN, secret : BOOLEAN, dir : BOOLEAN]

\* token files in front of a whole run of the program
MainFiles == {Absent, Rec("A", NULL, NoTime), Rec("A", "R", NoTime)}

\* an AuthClient::new that does not ask for the client secret
NewIgnoresSecret(e) ==
    CASE ~e.id -> "client_id_not_set"
      [] ~e.dir -> "no_config_dir"
      [] OTHER -> "ok"

\* AuthClient::new: the two environment variables, then get_config_dir
NewResult(e) ==
    CASE ~e.id -> "client_id_not_set"
      [] ~e.secret -> "client_secret_not_set"
      [] ~e.dir -> "no_config_dir"
      [] OTHER -> "ok"

\* the process starts
InitMain ==
    /\ AuthStart(MainFiles, Horizon)
    /\ main = "start"
    /\ env \in Environments
    /\ exit = "none"
    /\ NoDownloads
    /\ NoExt

\* deps::ensure_dependencies: its error is a warning, main goes on either way
MainDeps ==
    /\ main = "start"
    /\ main' = "new"
    /\ UNCHANGED <<env, exit, authVars, dlVars, extVars>>

\* `match auth::AuthClient::new()`: the client, or `return Err(e)`
MainNew ==
    /\ main = "new"
    /\ IF NewResult(env) = "ok"
         THEN main' = "auth" /\ exit' = exit
         ELSE main' = "exited" /\ exit' = NewResult(env)
    /\ UNCHANGED <<env, authVars, dlVars, extVars>>

\* `auth_client.get_access_token().await` starts
MainGetToken ==
    /\ main = "auth"
    /\ GatCall(1)

\* `match auth_client.get_access_token().await`: the token, or `return Err(e)`
MainAfterAuth ==
    /\ main = "auth"
    /\ pc = "done"
    /\ IF result.kind = "ok"
         THEN main' = "ui" /\ exit' = exit
         ELSE main' = "exited" /\ exit' = result.value
    /\ UNCHANGED <<env, authVars, dlVars, extVars>>

\* ui::run returns
MainUi ==
    /\ main = "ui"
    /\ main' = "exited"
    /\ \E r \in {"ok", "ui_error"} : exit' = r
    /\ UNCHANGED <<env, authVars, dlVars, extVars>>

NextMain ==
    \/ MainDeps \/ MainNew \/ MainGetToken
    \/ CallSteps \/ PollSteps
    \/ MainAfterAuth \/ MainUi

SpecMain == InitMain /\ [][NextMain]_vars

----------------------------------------------------------------------------
(* Downloads: ui::run's keys 'd' and 'c', player::download_video *)

Tasks == 1..MaxDownloads

\* the yt-dlp processes that run
Running == {c \in Tasks : child[c] = "running"}

\* ui::run is entered with the token main() obtained
InitUi ==
    /\ AuthStart({Rec("A", NULL, NoTime)}, Horizon)
    /\ main = "ui"
    /\ env = [id |-> TRUE, secret |-> TRUE, dir |-> TRUE]
    /\ exit = "none"
    /\ NoDownloads
    /\ NoExt

\* download_video returns r
DlReturn(d, r) == dl' = [dl EXCEPT ![d] = [pc |-> "returned", held |-> 0, result |-> r]]

\* key 'd': tokio::spawn of a download_video task; nothing keeps the user from
\* starting one download while another runs
UiDownload(d) ==
    /\ main = "ui"
    /\ dl[d].pc = "unused"
    /\ \A e \in Tasks : e < d => dl[e].pc # "unused"
    /\ dl' = [dl EXCEPT ![d].pc = "ensure"]
    /\ UNCHANGED <<child, slot, cancel, mainVars, authVars, extVars>>

\* `if !deps::check_ytdlp().await { deps::ensure_ytdlp().await?; }`
DlEnsure(d) ==
    /\ dl[d].pc = "ensure"
    /\ \/ dl' = [dl EXCEPT ![d].pc = "spawn"]
       \/ DlReturn(d, "ytdlp_missing")
    /\ UNCHANGED <<child, slot, cancel, mainVars, authVars, extVars>>

\* `TokioCommand::new(..) .. .spawn()?`
DlSpawn(d) ==
    /\ dl[d].pc = "spawn"
    /\ \/ /\ dl' = [dl EXCEPT ![d].pc = "spawned"]
          /\ child' = [child EXCEPT ![d] = "running"]
       \/ /\ DlReturn(d, "spawn_failed")
          /\ child' = child
    /\ UNCHANGED <<slot, cancel, mainVars, authVars, extVars>>

\* "Store the handle for cancellation": `*guard = Some(download)`
DlStore(d) ==
    /\ dl[d].pc = "spawned"
    /\ slot' = d
    /\ dl' = [dl EXCEPT ![d].pc = "stored"]
    /\ UNCHANGED <<child, cancel, mainVars, authVars, extVars>>

\* "Take the child out of the mutex before awaiting": `child_guard.take()`;
\* with an empty slot, `return Err(anyhow!("Download was cancelled"))`
DlTake(d) ==
    /\ dl[d].pc = "stored"
    /\ IF slot # 0
         THEN dl' = [dl EXCEPT ![d] = [pc |-> "waiting", held |-> slot, result |-> "none"]]
         ELSE DlReturn(d, "cancelled")
    /\ slot' = 0
    /\ UNCHANGED <<child, cancel, mainVars, authVars, extVars>>

\* the yt-dlp process ends by itself
ChildExit(c) ==
    /\ child[c] = "running"
    /\ \E code \in {"exit_ok", "exit_failed"} : child' = [child EXCEPT ![c] = code]
    /\ UNCHANGED <<dl, slot, cancel, mainVars, authVars, extVars>>

\* `child_process.wait().await` returns: the slot is cleared and the exit status
\* decides what download_video returns
DlWaited(d) ==
    /\ dl[d].pc = "waiting"
    /\ child[dl[d].held] # "running"
    /\ slot' = 0
    /\ \/ DlReturn(d, IF child[dl[d].held] = "exit_ok" THEN "ok" ELSE "download_failed")
       \/ DlReturn(d, "wait_error")
    /\ UNCHANGED <<child, cancel, mainVars, authVars, extVars>>

\* key 'c': `handle_guard.take()`; the child it finds is killed, an empty slot
\* is "No active download to cancel"
UiCancel ==
    /\ main = "ui"
    /\ cancel.n < MaxCancels
    /\ cancel' = [n |-> cancel.n + 1, found |-> slot, running |-> Running,
                  stored |-> {d \in Tasks : dl[d].pc \in {"stored", "waiting"}},
                  took |-> cancel.took \cup (IF slot # 0 THEN {slot} ELSE {})]
    /\ slot' = 0
    /\ child' = IF slot # 0 /\ child[slot] = "running"
                  THEN [child EXCEPT ![slot] = "killed"]
                  ELSE child
    /\ UNCHANGED <<dl, mainVars, authVars, extVars>>

NextDownload ==
    \/ \E d \in Tasks : UiDownload(d)
    \/ \E d \in Tasks : DlEnsure(d)
    \/ \E d \in Tasks : DlSpawn(d)
    \/ \E d \in Tasks : DlStore(d)
    \/ \E d \in Tasks : DlTake(d)
    \/ \E d \in Tasks : DlWaited(d)
    \/ \E c \in Tasks : ChildExit(c)
    \/ UiCancel

SpecDownload == InitUi /\ [][NextDownload]_vars

----------------------------------------------------------------------------
(* Vocabulary of the properties *)

GAT == "get_access_token"

Probes == Count(reqs, {"probe"})
Posts == Count(reqs, {"refresh", "device", "poll"})
DevicePosts == Count(reqs, {"device"})
RefreshPosts == Count(reqs, {"refresh"})

\* record rec has reached its expires_at at time t
ExpiredAt(rec, t) == rec.expires_at # NoTime /\ rec.expires_at <= t

\* record rec has no expires_at, or one after time t
FutureAt(rec, t) == rec.expires_at = NoTime \/ rec.expires_at > t

\* no probe of the call was answered with anything but 2xx
NoProbeFailed == \A i \in 1..Len(reqs) : reqs[i].kind = "probe" => reqs[i].res = "ok"

\* the probe get_access_token sent for the stored record was not answered 2xx
FirstProbeFailed ==
    /\ Len(reqs) >= 1
    /\ reqs[1].kind = "probe"
    /\ reqs[1].res \in {"status", "transport"}

\* the stored record is not valid for get_access_token
StoredInvalid ==
    /\ fileStart.kind = "record"
    /\ (ExpiredAt(fileStart, callTime) \/ FirstProbeFailed)

NoSaveFailed == \A i \in 1..Len(saves) : saves[i] = "ok"

\* the refresh request was answered 2xx with an access_token and the record was written
RefreshSucceeded ==
    /\ \E i \in 1..Len(reqs) : reqs[i].kind = "refresh" /\ reqs[i].res = "ok"
    /\ NoSaveFailed

\* get_access_token is still before the end of its validity check
InValidityCheck == pc \in {"G_load", "G_valid", "G_probe"}

\* the errors the device flow of authenticate() returns
DeviceFlowErrors ==
    {"device_code_transport", "device_code_failed", "device_code_body",
     "device_code_parse",
     "device_code_expired", "poll_transport", "poll_parse", "authorization_error",
     "save_failed"}

----------------------------------------------------------------------------
(* Properties *)

\* C1: when the token file holds a record whose expires_at is absent or in the
\* future and the probe answers 2xx, get_access_token returns that record's
\* access_token, sends no POST and does not write the token file.
C1_ValidRecordIsReturned ==
    (/\ entry = GAT
     /\ fileStart.kind = "record"
     /\ FutureAt(fileStart, callTime)
     /\ ~InValidityCheck
     /\ NoProbeFailed)
    => /\ pc = "done"
       /\ result = Ok(fileStart.access_token, "cache")
       /\ Probes = 1
       /\ Posts = 0
       /\ saves = <<>>
       /\ file = fileStart

C1_Witness ==
    /\ pc = "done"
    /\ entry = GAT
    /\ fileStart.kind = "record"
    /\ fileStart.expires_at # NoTime
    /\ reqs = <<[kind |-> "probe", arg |-> fileStart.access_token, res |-> "ok"]>>
    /\ result.kind = "ok"

\* C2: when the stored record is not valid but has a refresh_token and the
\* refresh succeeds, get_access_token returns the access_token of the refresh
\* response, the token file holds the refreshed record when the call returns,
\* and the call sends no device-code POST.
C2_RefreshedTokenIsReturned ==
    (/\ entry = GAT
     /\ StoredInvalid
     /\ fileStart.refresh_token # NULL
     /\ RefreshSucceeded)
    => /\ pc = "done"
       /\ body.seen
       /\ result = Ok(body.access_token, "refresh")
       /\ file.kind = "record"
       /\ file.access_token = body.access_token
       /\ file.expires_at = ExpiresAt(body.expires_in, now)
       /\ saves = <<"ok">>
       /\ DevicePosts = 0

C2_Witness ==
    /\ pc = "done"
    /\ entry = GAT
    /\ FirstProbeFailed
    /\ RefreshSucceeded
    /\ result.src = "refresh"
    /\ result.value = "B"

\* the cases of C3: no stored record, an invalid record without refresh_token,
\* or a refresh answered with a non-success status
C3_Case ==
    /\ entry = GAT
    /\ \/ fileStart.kind # "record"
       \/ StoredInvalid /\ fileStart.refresh_token = NULL
       \/ \E i \in 1..Len(reqs) : reqs[i].kind = "refresh" /\ reqs[i].res = "status"

\* C3 as stated: in those cases get_access_token goes on to the device flow
\* (the device-code POST is sent) and returns that flow's result.
C3_AsStated ==
    (C3_Case /\ pc = "done")
    => /\ DevicePosts = 1
       /\ result.src # "cache"

\* C3, amended: in those cases get_access_token goes on to authenticate() and
\* returns its result, which is the device flow's result unless authenticate()'s
\* own probe of the re-read record is answered 2xx, and then the cached
\* access_token with no device-code POST; a failed refresh is never the error
\* returned.
C3_FallsBackToAuthenticate ==
    (C3_Case /\ pc = "done")
    => /\ auth > 0
       /\ result.src \in {"cache", "grant", "none"}
       /\ result.kind = "err" => result.value \in DeviceFlowErrors
       /\ IF DevicePosts = 0
            THEN /\ result = Ok(fileStart.access_token, "cache")
                 /\ Len(reqs) = auth
                 /\ reqs[auth] = [kind |-> "probe", arg |-> fileStart.access_token,
                                  res |-> "ok"]
            ELSE /\ DevicePosts = 1
                 /\ result.src # "cache"
                 /\ reqs[auth].kind = "device" \/ reqs[auth + 1].kind = "device"

C3_Witness ==
    /\ pc = "done"
    /\ entry = GAT
    /\ \E i \in 1..Len(reqs) : reqs[i].kind = "refresh" /\ reqs[i].res = "status"
    /\ DevicePosts = 1
    /\ result.src = "grant"

\* C4 as stated: every call of authenticate() sends the device-code POST,
\* whatever the token file holds.
C4_AsStated ==
    (auth > 0 /\ pc = "done") => DevicePosts = 1

\* C4, amended: authenticate() first checks the token file; when it holds a
\* record whose expires_at is absent or in the future and the probe for it is
\* answered 2xx, authenticate() returns that record's access_token and sends no
\* device-code POST; in every other case it sends the device-code POST.
C4_DeviceFlowUnlessValid ==
    (auth > 0 /\ pc = "done")
    => /\ DevicePosts = 0 =>
            /\ tok.kind = "record"
            /\ FutureAt(tok, callTime)
            /\ Len(reqs) = auth
            /\ reqs[auth] = [kind |-> "probe", arg |-> tok.access_token, res |-> "ok"]
            /\ result = Ok(tok.access_token, "cache")
            /\ file = tok
       /\ (/\ tok.kind = "record"
           /\ FutureAt(tok, now)
           /\ \A i \in auth..Len(reqs) :
                reqs[i].kind = "probe" => reqs[i].res = "ok")
          => DevicePosts = 0

C4_Witness ==
    /\ pc = "done"
    /\ entry = "authenticate"
    /\ fileStart.kind = "record"
    /\ DevicePosts = 0
    /\ result = Ok(fileStart.access_token, "cache")

\* the last request was a poll answered with a body that has an access_token
\* and no error
PollGranted ==
    /\ Len(reqs) >= 1
    /\ reqs[Len(reqs)].kind = "poll"
    /\ reqs[Len(reqs)].res = "ok"
    /\ body.seen
    /\ body.error = NULL
    /\ body.access_token # NULL

\* C5: starting with no token file, a get_access_token call whose device-code
\* request succeeds and whose polls end with an access_token and no error goes
\* Requesting -> AwaitingUser -> Granted, returns that access_token and leaves a
\* record with that access_token, the refresh_token of the grant response and
\* expires_at = time of grant + expires_in (absent without expires_in). The
\* write of the record is taken to succeed.
C5_FirstGrant ==
    (/\ entry = GAT
     /\ fileStart = Absent
     /\ PollGranted
     /\ NoSaveFailed)
    => /\ pc = "done"
       /\ trail = <<"Requesting", "AwaitingUser", "Granted">>
       /\ result = Ok(body.access_token, "grant")
       /\ saves = <<"ok">>
       /\ file = Rec(body.access_token, body.refresh_token,
                     IF body.expires_in = NoTime THEN NoTime ELSE now + body.expires_in)

C5_Witness ==
    /\ pc = "done"
    /\ entry = GAT
    /\ fileStart = Absent
    /\ PollGranted
    /\ Count(reqs, {"poll"}) = 2
    /\ body.expires_in # NoTime
    /\ file.kind = "record"
    /\ file.expires_at = now + body.expires_in

\* C6: get_access_token or authenticate returns an access_token read from the
\* token file only if a probe carrying that token was answered 2xx earlier in
\* the same call, and no probe of the call failed after it.
C6_ProbeGatesReuse ==
    (pc = "done" /\ result.kind = "ok" /\ result.src = "cache")
    => /\ Len(reqs) >= 1
       /\ reqs[Len(reqs)] = [kind |-> "probe", arg |-> result.value, res |-> "ok"]
       /\ file.kind = "record"
       /\ file.access_token = result.value
       /\ FutureAt(file, callTime)

C6_Witness ==
    /\ pc = "done"
    /\ entry = GAT
    /\ result.src = "cache"
    /\ Len(reqs) = 2
    /\ reqs[1].kind = "probe"
    /\ reqs[1].res = "transport"
    /\ reqs[2].res = "ok"

\* C7: for a stored record whose expires_at is at or before the current time,
\* get_access_token does not return the cached access_token without a
\* successful probe, and when its probe fails or is not made it sends the
\* refresh POST if the record has a refresh_token and enters authenticate()
\* otherwise.
C7_ExpiredRecord ==
    (/\ entry = GAT
     /\ fileStart.kind = "record"
     /\ ExpiredAt(fileStart, callTime)
     /\ ~InValidityCheck
     /\ pc # "G_refresh_decide")
    => /\ result.src = "cache" =>
            \E i \in 1..Len(reqs) :
                reqs[i] = [kind |-> "probe", arg |-> result.value, res |-> "ok"]
       /\ ~(Len(reqs) >= 1 /\ reqs[1].kind = "probe" /\ reqs[1].res = "ok") =>
            IF fileStart.refresh_token # NULL
              THEN \E i \in 1..Len(reqs) :
                     /\ reqs[i].kind = "refresh"
                     /\ reqs[i].arg = fileStart.refresh_token
                     /\ \A j \in 1..(i - 1) : reqs[j].kind = "probe"
              ELSE /\ RefreshPosts = 0
                   /\ pc = "A_load" \/ auth > 0

C7_Witness ==
    /\ pc = "done"
    /\ entry = GAT
    /\ fileStart.kind = "record"
    /\ fileStart.expires_at = callTime
    /\ reqs[1].kind = "refresh"
    /\ result.src = "refresh"

\* C8: two get_access_token calls in succession against a cached record that
\* stays valid return the same access_token, send no POST, send the probe at
\* most once per call and leave the token file as it was before the first call.
C8_ReuseIsIdempotent ==
    (/\ pc = "done"
     /\ entry = GAT
     /\ StayedValid
     /\ prev.entry = GAT
     /\ prev.stayedValid)
    => /\ result = Ok(fileStart.access_token, "cache")
       /\ prev.result = result
       /\ Posts = 0
       /\ prev.nPost = 0
       /\ Probes <= 1
       /\ prev.nProbe <= 1
       /\ Writes(saves) = 0
       /\ prev.writes = 0
       /\ file = prev.fileStart

C8_Witness ==
    /\ pc = "done"
    /\ calls = 2
    /\ entry = GAT
    /\ StayedValid
    /\ prev.entry = GAT
    /\ prev.stayedValid
    /\ prev.nProbe = 1
    /\ Probes = 1
    /\ now > StartTime

\* C9: after a successful refresh the persisted refresh_token is the one that
\* was stored before the refresh and sent in the request, whether the response
\* omits refresh_token or carries one; it is never null.
C9_RefreshKeepsRefreshToken ==
    (entry = GAT /\ RefreshSucceeded)
    => /\ file.kind = "record"
       /\ file.refresh_token = fileStart.refresh_token
       /\ file.refresh_token = reqs[Len(reqs)].arg
       /\ file.refresh_token # NULL

C9_Witness ==
    /\ pc = "done"
    /\ entry = GAT
    /\ RefreshSucceeded
    /\ body.refresh_token = "R2"
    /\ file.refresh_token = "R"

\* C10: the token file is absent or holds a record whose access_token is not
\* empty: no response with access_token = "" produces a persisted record.
C10_AccessTokenNotEmpty ==
    file.kind = "record" => file.access_token # ""

----------------------------------------------------------------------------
(* Vocabulary of the poll loop *)

PollsSent == Count(reqs, {"poll"})

\* the k-th poll of the call in progress
NthPoll(k) ==
    reqs[CHOOSE i \in 1..Len(reqs) :
           reqs[i].kind = "poll" /\ Count(SubSeq(reqs, 1, i), {"poll"}) = k]

RECURSIVE SleptSince(_, _)
\* the time slept after the n-th poll was sent, in the sleeps sl
SleptSince(sl, n) ==
    IF sl = <<>>
      THEN 0
      ELSE (IF Head(sl).after = n THEN Head(sl).d ELSE 0) + SleptSince(Tail(sl), n)

\* the wait between the (k-1)-th poll and the k-th
WaitBefore(k) == SleptSince(sleeps, k - 1)

\* the sleep durations of the call in progress, in order
Durations == [i \in 1..Len(sleeps) |-> sleeps[i].d]

----------------------------------------------------------------------------
(* Properties of the poll loop *)

\* C11: after a poll is answered slow_down while the poll interval is d, every
\* later wait between two consecutive polls of the same authenticate() call is
\* at least 2d.
C11_SlowDownPersists ==
    \A j \in 1..PollsSent, k \in 1..PollsSent :
        (j < k /\ NthPoll(j).res = "slow_down") => WaitBefore(k) >= 2 * interval

\* C12: the sleep durations of one authenticate() call, in the order they were
\* slept, never decrease.
C12_SleepsNeverDecrease ==
    \A i \in 1..Len(sleeps), j \in 1..Len(sleeps) :
        i < j => Durations[i] <= Durations[j]

\* the sleeps entered after the n-th poll was sent
SleepsAfter(n) == SelectSeq(sleeps, LAMBDA sl : sl.after = n)

\* the latest request is a poll and it was answered o
LastPollAnswered(o) ==
    /\ Len(reqs) >= 1
    /\ reqs[Len(reqs)].kind = "poll"
    /\ reqs[Len(reqs)].res = o

\* C13: a poll answered authorization_pending keeps the session in AwaitingUser:
\* the token file is not written and the answer does not end the call (only the
\* deadline test at the top of the loop can, with the expiry error); the next
\* poll follows after one sleep of the same interval as the sleep before.
C13_PendingKeepsWaiting ==
    /\ LastPollAnswered("authorization_pending")
         => /\ pc \in {"A_check", "A_sleep", "done"}
            /\ pc = "done" => (result = Err("device_code_expired") /\ now > deadline)
            /\ trail[Len(trail)] = (IF pc = "done" THEN "Expired" ELSE "AwaitingUser")
            /\ saves = <<>>
            /\ file = fileStart
            /\ SleepsAfter(PollsSent) = <<>>
    /\ \A k \in 2..PollsSent :
         NthPoll(k - 1).res = "authorization_pending"
           => /\ SleepsAfter(k - 1) = <<[d |-> interval, after |-> k - 1]>>
              /\ LET before == SleepsAfter(k - 2)
                 IN  before[Len(before)].d = interval

C13_Witness ==
    /\ pc = "A_poll"
    /\ PollsSent = 3
    /\ interval = 1
    /\ NthPoll(1).res = "authorization_pending"
    /\ NthPoll(2).res = "authorization_pending"

\* the call in progress is in the poll loop of a device session
InSession == pc \in {"A_check", "A_sleep", "A_poll", "A_slow"}

\* C14: once the clock has passed the expiry instant of the device session (the
\* time of the device-code response plus expires_in), the call accepts no grant:
\* it writes no record and returns no token, also for a poll it sends after
\* that instant.
C14_NoGrantAfterExpiry ==
    [][(InSession /\ now > deadline) => (saves' = saves /\ result'.kind # "ok")]_vars

\* the latest poll was answered with a body that carries an error and an
\* access_token, and the loop has not gone on to its next iteration
ErrorWithToken ==
    /\ Len(reqs) >= 1
    /\ reqs[Len(reqs)].kind = "poll"
    /\ body.seen
    /\ body.error # NULL
    /\ body.access_token # NULL

\* C15: a poll response that carries both an error and an access_token is never
\* treated as a grant, whatever the error is: nothing is saved, no token is
\* returned, and the error decides what happens next.
C15_ErrorBeforeToken ==
    ErrorWithToken
    => /\ saves = <<>>
       /\ file = fileStart
       /\ result.kind # "ok"
       /\ trail[Len(trail)] # "Granted"
       /\ pc \in (CASE body.error = "authorization_pending" -> {"A_check"}
                    [] body.error = "slow_down" -> {"A_slow", "A_check"}
                    [] OTHER -> {"done"})

C15_Witness ==
    /\ ErrorWithToken
    /\ body.error = "authorization_pending"
    /\ body.access_token = "B"
    /\ pc = "A_check"

\* the errors of a poll body that are not empty and that the loop has no arm for
TerminalErrors == RespError \ {NULL, "", "authorization_pending", "slow_down"}

\* C16: a poll response whose error is not empty and is neither
\* authorization_pending nor slow_down ends the session as Denied: the call
\* returns an error that carries the server's error text, the denied poll is
\* the last request, and the token file is unchanged.
C16_OtherErrorDenies ==
    \A i \in 1..Len(reqs) :
        (reqs[i].kind = "poll" /\ reqs[i].res \in TerminalErrors)
        => /\ i = Len(reqs)
           /\ pc = "done"
           /\ result = Denied(reqs[i].res)
           /\ result.msg = body.error
           /\ trail[Len(trail)] = "Denied"
           /\ saves = <<>>
           /\ file = fileStart

C16_Witness ==
    /\ pc = "done"
    /\ PollsSent = 2
    /\ LastPollAnswered("access_denied")
    /\ fileStart.kind = "record"
    /\ result.msg = "access_denied"

\* the device-code POST of the call was answered o
DeviceAnswered(o) ==
    \E i \in 1..Len(reqs) : reqs[i].kind = "device" /\ reqs[i].res = o

\* C17: when the device-code POST is answered with a non-success status,
\* authenticate() fails with an error of the device-code request ("Failed to get
\* device code", or the failure to read the refusal): the session never enters
\* AwaitingUser, no poll is sent, and the token file is unchanged.
C17_DeviceCodeRefused ==
    (DeviceAnswered("status") \/ DeviceAnswered("status_unreadable"))
    => /\ pc = "done"
       /\ result \in {Err("device_code_failed"), Err("device_code_body")}
       /\ trail = <<"Requesting">>
       /\ PollsSent = 0
       /\ reqs[Len(reqs)].kind = "device"
       /\ sleeps = <<>>
       /\ saves = <<>>
       /\ file = fileStart

C17_Witness ==
    /\ pc = "done"
    /\ DeviceAnswered("status")
    /\ result = Err("device_code_failed")
    /\ fileStart.kind = "record"
    /\ Probes = 1

\* C18: a transport failure of a poll is not retried: authenticate() returns the
\* error at once, the failed poll is the last request of the call, and the
\* token file is unchanged.
C18_PollFailureIsFinal ==
    \A i \in 1..Len(reqs) :
        (reqs[i].kind = "poll" /\ reqs[i].res = "transport")
        => /\ i = Len(reqs)
           /\ pc = "done"
           /\ result = Err("poll_transport")
           /\ SleepsAfter(PollsSent) = <<>>
           /\ saves = <<>>
           /\ file = fileStart

C18_Witness ==
    /\ pc = "done"
    /\ PollsSent = 2
    /\ NthPoll(1).res = "slow_down"
    /\ LastPollAnswered("transport")
    /\ fileStart.kind = "record"

----------------------------------------------------------------------------
(* Properties of the failures *)

\* C19: a transport failure of any request of a get_access_token call (probe,
\* refresh POST, device-code POST, poll) is fatal for the call: the failed
\* request is the last one the call sends, and what the call returns is an error.
C19_TransportIsFatal ==
    entry = GAT
    => \A i \in 1..Len(reqs) :
           reqs[i].res = "transport"
           => /\ i = Len(reqs)
              /\ pc = "done" => result.kind = "err"

\* the latest poll was answered with a grant and save_token failed on it
GrantNotSaved ==
    /\ LastPollAnswered("ok")
    /\ body.seen
    /\ body.access_token # NULL
    /\ saves # <<>>
    /\ saves[Len(saves)] # "ok"

\* C20: when save_token fails after the token endpoint granted a token, the
\* call returns an error; it does not return the granted access_token.
C20_SaveFailureIsSurfaced ==
    GrantNotSaved
    => /\ pc = "done"
       /\ result = Err("save_failed")
       /\ file \in {fileStart, Corrupt}

C20_Witness ==
    /\ GrantNotSaved
    /\ pc = "done"
    /\ body.access_token = "B"
    /\ fileStart.kind = "record"
    /\ file = Corrupt

\* C21: a token file that is missing, unreadable or not parseable counts as no
\* token: get_access_token sends no probe and no refresh POST, its first request
\* is the device-code POST, and what it returns is the result of the device flow.
C21_NoFileMeansDeviceFlow ==
    (entry = GAT /\ fileStart.kind # "record")
    => /\ Probes = 0
       /\ RefreshPosts = 0
       /\ tok = NoTok
       /\ Len(reqs) >= 1 => reqs[1].kind = "device"
       /\ pc = "done"
            => /\ DevicePosts = 1
               /\ result.kind = "ok" => result.src = "grant"
               /\ result.kind = "err" => result.value \in DeviceFlowErrors

C21_Witness ==
    /\ pc = "done"
    /\ entry = GAT
    /\ fileStart = Corrupt
    /\ result = Ok("B", "grant")
    /\ file.kind = "record"

\* C22 as stated: the token file is written only at a successful grant: during
\* an authenticate() call the file differs from its content at the start of the
\* call only when the call has returned the granted token, so a call that is
\* abandoned on the way, or that ends Expired, Denied or with an error, leaves
\* the file as it was.
C22_AsStated ==
    (entry = "authenticate" /\ file # fileStart)
    => /\ pc = "done"
       /\ result.kind = "ok"
       /\ result.src = "grant"

\* C22, amended: authenticate() touches the token file only in the one
\* save_token it calls when a poll is answered with a grant. Up to then, at
\* every step, the file is what it was when the call started, so a call
\* abandoned on the way, or ended Expired, Denied or by a failed request, leaves
\* it untouched. A save_token that succeeds leaves the granted record; one that
\* fails ends the call with an error and leaves the file as it was or truncated.
C22_FileWrittenOnlyBySave ==
    entry = "authenticate"
    => /\ pc # "done" => saves = <<>>
       /\ saves = <<>> => file = fileStart
       /\ saves # <<>>
            => /\ Len(saves) = 1
               /\ LastPollAnswered("ok")
               /\ body.access_token # NULL
               /\ IF saves[1] = "ok"
                    THEN /\ result = Ok(body.access_token, "grant")
                         /\ file.kind = "record"
                         /\ file.access_token = body.access_token
                    ELSE /\ result = Err("save_failed")
                         /\ file \in {fileStart, Corrupt}

C22_Witness ==
    /\ entry = "authenticate"
    /\ pc = "done"
    /\ result = Err("device_code_expired")
    /\ PollsSent = 2
    /\ fileStart.kind = "record"
    /\ file = fileStart

----------------------------------------------------------------------------
(* Properties of the order of the requests *)

\* requests of the call that were sent and not answered yet
InFlight == {i \in 1..Len(reqs) : reqs[i].res = "pending"}

\* the place of a kind of request in the order probe, refresh, device-code, poll
Rank(kind) ==
    CASE kind = "probe" -> 1
      [] kind = "refresh" -> 2
      [] kind = "device" -> 3
      [] OTHER -> 4

\* the same with the probe of authenticate() told from the probe of
\* get_access_token: probe, refresh, probe of authenticate, device-code, poll
Stage(i) ==
    CASE reqs[i].kind = "probe" -> (IF auth = 0 \/ i < auth THEN 1 ELSE 3)
      [] reqs[i].kind = "refresh" -> 2
      [] reqs[i].kind = "device" -> 4
      [] OTHER -> 5

\* C23 as stated: within one get_access_token call at most one request is in
\* flight and the requests are sent in the order probe, refresh POST,
\* device-code POST, polls.
C23_AsStated ==
    entry = GAT
    => /\ Cardinality(InFlight) <= 1
       /\ \A i \in 1..Len(reqs), j \in 1..Len(reqs) :
            i < j => Rank(reqs[i].kind) <= Rank(reqs[j].kind)

\* C23, amended: within one get_access_token call a request is sent only when
\* every earlier one was answered, and the order is: the probe of
\* get_access_token, the refresh POST, the probe authenticate() makes of the
\* record it loads again, the device-code POST, the polls; each of the first
\* four at most once, and no refresh POST once authenticate() was entered.
C23_StrictlySequential ==
    entry = GAT
    => /\ InFlight \subseteq {Len(reqs)}
       /\ \A i \in 1..Len(reqs), j \in 1..Len(reqs) :
            i < j => /\ Stage(i) <= Stage(j)
                     /\ Stage(i) = Stage(j) => reqs[i].kind = "poll"
       /\ \A i \in 1..Len(reqs) :
            reqs[i].kind = "refresh" => (auth = 0 \/ i < auth)

C23_Witness ==
    /\ entry = GAT
    /\ pc = "A_poll"
    /\ Len(reqs) = 6
    /\ [i \in 1..6 |-> reqs[i].kind]
         = <<"probe", "refresh", "probe", "device", "poll", "poll">>
    /\ InFlight = {6}

\* the device session of the call has ended Expired or Denied
SessionEnded ==
    \E i \in 1..Len(trail) : trail[i] \in {"Expired", "Denied"}

\* C24: Expired and Denied device sessions are terminal: a call sends at most
\* one device-code POST, and once its session is Expired or Denied the call has
\* returned the error, with a poll of that session as its last request.
C24_EndedSessionIsTerminal ==
    /\ DevicePosts <= 1
    /\ SessionEnded
         => /\ trail[Len(trail)] \in {"Expired", "Denied"}
            /\ pc = "done"
            /\ result \in {Err("device_code_expired")}
                              \cup {Denied(e) : e \in RespError \ {NULL}}
            /\ InFlight = {}
            /\ reqs[Len(reqs)].kind = "poll"
            /\ Len(SelectSeq(trail, LAMBDA st : st = "Requesting")) = 1

C24_Witness ==
    /\ entry = GAT
    /\ pc = "done"
    /\ trail = <<"Requesting", "AwaitingUser", "Expired">>
    /\ PollsSent = 2
    /\ Probes = 2

----------------------------------------------------------------------------
(* Termination *)

\* C25: a device session whose polls are answered authorization_pending or
\* slow_down for ever ends: from the moment the call waits for the user it
\* eventually returns the device-code-expired error, whatever interval and
\* expires_in the server gave.
C25_WaitingSessionExpires ==
    (pc = "A_check") ~> (pc = "done" /\ result = Err("device_code_expired"))

C25_Witness ==
    /\ pc = "done"
    /\ result = Err("device_code_expired")
    /\ interval = 0
    /\ deadline - callTime >= 2
    /\ LastPollAnswered("slow_down")

----------------------------------------------------------------------------
(* Properties of main *)

\* C26: when GOOGLE_CLIENT_ID or GOOGLE_CLIENT_SECRET is not set,
\* AuthClient::new fails and main returns that error: no call is made on an
\* AuthClient, the token file is not read, no request is sent and the UI is
\* never started.
C26_MissingCredentialsAreFatal ==
    (~env.id \/ ~env.secret)
    => /\ main \in {"start", "new", "exited"}
       /\ main = "exited" => exit \in {"client_id_not_set", "client_secret_not_set"}
       /\ pc = "idle"
       /\ calls = 0
       /\ tok = NoTok
       /\ reqs = <<>>
       /\ file = fileStart

C26_Witness ==
    /\ main = "exited"
    /\ env.id
    /\ ~env.secret
    /\ exit = "client_secret_not_set"
    /\ file.kind = "record"

----------------------------------------------------------------------------
(* Properties of the downloads *)

\* C27: the cancellation handle works for the whole download: a press of 'c'
\* while the yt-dlp child of a download runs, after download_video has stored
\* its handle, finds that child in the slot.
C27_CancelFindsChild ==
    \A c \in Tasks :
        (cancel.running = {c} /\ c \in cancel.stored) => cancel.found = c

----------------------------------------------------------------------------
(* deps.rs: ensure_dependencies, ensure_mpv, ensure_ytdlp *)

Tools == {"mpv", "ytdlp"}

Platforms == {"windows", "linux", "macos"}

\* the install attempts of ensure_mpv and ensure_ytdlp, in the order of the code,
\* for each target the program is built for
Installers(os, tool) ==
    IF tool = "mpv"
    THEN CASE os = "windows" -> <<"github", "winget", "choco", "scoop">>
           [] os = "linux" -> <<"apt", "pacman">>
           [] OTHER -> <<"brew">>
    ELSE CASE os = "windows" -> <<"github", "pip", "winget", "choco", "scoop">>
           [] os = "linux" -> <<"pip", "apt", "pacman">>
           [] OTHER -> <<"pip", "brew">>

\* whether the code checks the tool after this install attempt succeeded and
\* before it returns Ok: ensure_ytdlp does after each, ensure_mpv only after
\* the download from GitHub
Rechecks(tool, installer) == tool = "ytdlp" \/ installer = "github"

\* ensure_dependencies is called on a machine where some of the tools run
InitDeps ==
    /\ AuthStart({Absent}, Horizon)
    /\ Constructed
    /\ NoDownloads
    /\ NoNav
    /\ NoPlay
    /\ NoLate
    /\ \E os \in Platforms :
           dep = [os |-> os, tool |-> "mpv", at |-> "first", i |-> 0,
                  res |-> [t \in Tools |-> "none"],
                  check |-> [t \in Tools |-> "none"],
                  overall |-> "none"]
    /\ reach \in SUBSET Tools

\* ensure_<tool> returns r, its latest availability check having had outcome c;
\* ensure_dependencies chains the two calls with `?`
ToolReturn(d, r, c) ==
    LET d1 == [d EXCEPT !.res[d.tool] = r, !.check[d.tool] = c]
    IN  IF r = "err" THEN [d1 EXCEPT !.at = "returned", !.overall = "err"]
        ELSE IF d.tool = "mpv"
             THEN [d1 EXCEPT !.tool = "ytdlp", !.at = "first", !.i = 0]
             ELSE [d1 EXCEPT !.at = "returned", !.overall = "ok"]

\* the install attempt after the i-th, or the final check when none is left
NextAttempt(d, c) ==
    IF d.i < Len(Installers(d.os, d.tool))
    THEN [d EXCEPT !.i = d.i + 1, !.check[d.tool] = c]
    ELSE [d EXCEPT !.at = "final", !.check[d.tool] = c]

\* the check at the top of ensure_<tool>: the local copy, then the PATH
DepFirstCheck ==
    /\ dep.at = "first"
    /\ dep' = IF dep.tool \in reach
              THEN ToolReturn(dep, "ok", "ok")
              ELSE [dep EXCEPT !.at = "install", !.i = 1, !.check[dep.tool] = "failed"]
    /\ UNCHANGED <<reach, mainVars, authVars, dlVars, nav, play, lateVars>>

\* one install attempt: the package manager is looked for, run, and its exit
\* status read; a successful install may or may not leave a tool that runs
DepInstall ==
    /\ dep.at = "install"
    /\ LET t == dep.tool
           m == Installers(dep.os, t)[dep.i]
       IN  \E present \in BOOLEAN, success \in BOOLEAN, works \in BOOLEAN :
               /\ m = "github" => present
               /\ ~(present /\ success) => ~works
               /\ reach' = IF works THEN reach \cup {t} ELSE reach
               /\ dep' = CASE ~present -> NextAttempt(dep, dep.check[t])
                           [] present /\ ~success -> NextAttempt(dep, "none")
                           [] present /\ success /\ ~Rechecks(t, m) ->
                                  ToolReturn(dep, "ok", "none")
                           [] present /\ success /\ Rechecks(t, m) /\ works ->
                                  ToolReturn(dep, "ok", "ok")
                           [] OTHER -> NextAttempt(dep, "failed")
    /\ UNCHANGED <<mainVars, authVars, dlVars, nav, play, lateVars>>

\* the check after the install attempts: Ok, or the manual-install error
DepFinalCheck ==
    /\ dep.at = "final"
    /\ dep' = IF dep.tool \in reach
              THEN ToolReturn(dep, "ok", "ok")
              ELSE ToolReturn(dep, "err", "failed")
    /\ UNCHANGED <<reach, mainVars, authVars, dlVars, nav, play, lateVars>>

NextDeps == DepFirstCheck \/ DepInstall \/ DepFinalCheck

SpecDeps == InitDeps /\ [][NextDeps]_vars

\* C28: ensure_mpv and ensure_ytdlp return Ok only after an availability check
\* of the tool succeeded, in the same call and after its last install attempt;
\* they return the manual-install error when no check succeeded, and
\* ensure_dependencies returns Ok only if both returned Ok
C28_OkMeansChecked ==
    /\ \A t \in Tools : dep.res[t] = "ok" => dep.check[t] = "ok"
    /\ \A t \in Tools : dep.res[t] = "err" => dep.check[t] = "failed"
    /\ dep.overall = "ok" => \A t \in Tools : dep.res[t] = "ok"
----------------------------------------------------------------------------
(* ui.rs: the views and the keys that move between them, the lists  *)
(* of videos and shorts (their lengths), the page and the selection *)

\* a load answered Err(e)
LoadErr == -1

\* what a load answers: an error, or a list of this length
Loads == {LoadErr} \cup (0..MaxList)

\* what a load of videos answers: an error, or a list of this length
VideoLoads == {LoadErr} \cup (0..MaxVideos)

\* what get_channel_videos_by_id answers, after separate_videos_and_shorts:
\* an error, or the lengths of the two lists the videos were separated into
ChannelLoads ==
    {<<LoadErr, LoadErr>>}
        \cup {c \in (0..MaxVideos) \X (0..MaxVideos) : c[1] + c[2] <= MaxVideos}

\* `all_videos = videos; all_shorts = shorts; video_list_state.select(Some(0))`
\* when the load was answered Ok
ChannelVideosLoaded(v, c) ==
    IF c[1] = LoadErr THEN v
    ELSE [v EXCEPT !.videos = c[1], !.shorts = c[2], !.vidSel = 0]

\* `all_videos = new_videos; video_list_state.select(Some(0))`
VideosLoaded(v, r) == [v EXCEPT !.videos = r, !.vidSel = 0]

\* get_current_page_videos(all, page).len()
PageLen(n, page) ==
    IF page * VideosPerPage < n
    THEN (IF page * VideosPerPage + VideosPerPage < n
          THEN page * VideosPerPage + VideosPerPage ELSE n) - page * VideosPerPage
    ELSE 0

\* calculate_total_pages(count)
TotalPages(n) == (n + VideosPerPage - 1) \div VideosPerPage

\* `current_list`: all_shorts in the shorts view, all_videos in the others
CurrentList(v) == IF v.view = "SubscriptionShorts" THEN v.shorts ELSE v.videos

\* the state of everything but the navigation
notNav == <<mainVars, authVars, dlVars, depVars, play, lateVars>>

\* ui::run is entered with the token main() obtained
InitNav ==
    /\ AuthStart({Rec("A", NULL, NoTime)}, Horizon)
    /\ main = "ui"
    /\ env = [id |-> TRUE, secret |-> TRUE, dir |-> TRUE]
    /\ exit = "none"
    /\ NoDownloads
    /\ NoDeps
    /\ NoNav
    /\ NoPlay
    /\ NoLate

\* Up and Down in a list of length n: `selected > 0`, and
\* `selected < len.saturating_sub(1)`
Moved(sel, n, key) ==
    CASE sel = NoSel -> sel
      [] key = "Up" -> IF sel > 0 THEN sel - 1 ELSE sel
      [] OTHER -> IF n > 0 /\ sel < n - 1 THEN sel + 1 ELSE sel

\* 'r' on a list: `if state.selected().unwrap_or(0) >= list.len() { select(Some(0)) }`
Reselected(sel, n) ==
    IF (IF sel = NoSel THEN 0 ELSE sel) >= n THEN 0 ELSE sel

\* a load of channel playlists: `if channel_playlists.is_empty() {} else { select(Some(0)) }`
ChannelPlaylistsLoaded(v, r) ==
    IF r = LoadErr THEN v
    ELSE [v EXCEPT !.cpls = r, !.plSel = IF r = 0 THEN v.plSel ELSE 0]

\* MainMenu, 's' or Enter on the first entry
NavMenuSubscriptions ==
    /\ nav.view = "MainMenu"
    /\ \E r \in Loads :
           nav' = IF r = LoadErr THEN nav
                  ELSE [nav EXCEPT !.view = "Subscriptions", !.subs = r,
                                   !.subSel = IF r = 0 THEN nav.subSel ELSE 0]
    /\ UNCHANGED notNav

\* MainMenu, 'p' or Enter on the second entry
NavMenuPlaylists ==
    /\ nav.view = "MainMenu"
    /\ \E r \in Loads :
           nav' = IF r = LoadErr THEN nav
                  ELSE [nav EXCEPT !.view = "Playlists", !.pls = r, !.plSel = 0]
    /\ UNCHANGED notNav

\* MainMenu, 'c' or Enter on the third entry
NavMenuChannel ==
    /\ nav.view = "MainMenu"
    /\ nav' = [nav EXCEPT !.view = "ChannelInput"]
    /\ UNCHANGED notNav

\* ChannelInput, 'm' or Esc
NavInputBack ==
    /\ nav.view = "ChannelInput"
    /\ nav' = [nav EXCEPT !.view = "MainMenu"]
    /\ UNCHANGED notNav

\* ChannelInput, Enter on a channel URL
NavInputEnter ==
    /\ nav.view = "ChannelInput"
    /\ \E r \in VideoLoads :
           nav' = IF r = LoadErr THEN [nav EXCEPT !.page = 0]
                  ELSE VideosLoaded([nav EXCEPT !.view = "ChannelVideos", !.page = 0], r)
    /\ UNCHANGED notNav

\* Subscriptions, 'm' or Esc
NavSubscriptionsBack ==
    /\ nav.view = "Subscriptions"
    /\ nav' = [nav EXCEPT !.view = "MainMenu"]
    /\ UNCHANGED notNav

\* Subscriptions, Up or Down
NavSubscriptionsMove ==
    /\ nav.view = "Subscriptions"
    /\ \E key \in {"Up", "Down"} :
           nav' = [nav EXCEPT !.subSel = Moved(nav.subSel, nav.subs, key)]
    /\ UNCHANGED notNav

\* Subscriptions, Enter: the channel is selected, then its videos are loaded;
\* the Err arm goes back to the list and leaves selected_channel_id alone
NavSubscriptionsEnter ==
    /\ nav.view = "Subscriptions"
    /\ nav.subSel # NoSel
    /\ nav.subSel < nav.subs
    /\ \E c \in ChannelLoads :
           nav' = ChannelVideosLoaded(
                      [nav EXCEPT !.chan = TRUE, !.tab = 0, !.page = 0,
                                  !.view = IF c[1] = LoadErr THEN "Subscriptions"
                                           ELSE "SubscriptionVideos"], c)
    /\ UNCHANGED notNav

\* Subscriptions, 'r'
NavSubscriptionsRefresh ==
    /\ nav.view = "Subscriptions"
    /\ \E r \in Loads :
           nav' = IF r = LoadErr THEN nav
                  ELSE [nav EXCEPT !.subs = r, !.subSel = Reselected(nav.subSel, r)]
    /\ UNCHANGED notNav

\* Playlists, 'm' or Esc
NavPlaylistsBack ==
    /\ nav.view = "Playlists"
    /\ nav' = [nav EXCEPT !.view = "MainMenu"]
    /\ UNCHANGED notNav

\* Playlists, Up or Down
NavPlaylistsMove ==
    /\ nav.view = "Playlists"
    /\ \E key \in {"Up", "Down"} :
           nav' = [nav EXCEPT !.plSel = Moved(nav.plSel, nav.pls, key)]
    /\ UNCHANGED notNav

\* Playlists, Enter: the playlist's videos are loaded
NavPlaylistsEnter ==
    /\ nav.view = "Playlists"
    /\ nav.plSel # NoSel
    /\ nav.plSel < nav.pls
    /\ \E r \in VideoLoads :
           nav' = IF r = LoadErr THEN [nav EXCEPT !.page = 0]
                  ELSE VideosLoaded([nav EXCEPT !.view = "PlaylistVideos", !.page = 0,
                                                !.origin = "Playlists"], r)
    /\ UNCHANGED notNav

\* Playlists, 'r'
NavPlaylistsRefresh ==
    /\ nav.view = "Playlists"
    /\ \E r \in Loads :
           nav' = IF r = LoadErr THEN nav
                  ELSE [nav EXCEPT !.pls = r, !.plSel = Reselected(nav.plSel, r)]
    /\ UNCHANGED notNav

\* SubscriptionPlaylists, Esc
NavChannelPlaylistsBack ==
    /\ nav.view = "SubscriptionPlaylists"
    /\ nav' = [nav EXCEPT !.view = "Subscriptions", !.chan = FALSE, !.tab = 0]
    /\ UNCHANGED notNav

\* SubscriptionPlaylists, Up or Down
NavChannelPlaylistsMove ==
    /\ nav.view = "SubscriptionPlaylists"
    /\ \E key \in {"Up", "Down"} :
           nav' = [nav EXCEPT !.plSel = Moved(nav.plSel, nav.cpls, key)]
    /\ UNCHANGED notNav

\* SubscriptionPlaylists, Enter: the playlist's videos are loaded
NavChannelPlaylistsEnter ==
    /\ nav.view = "SubscriptionPlaylists"
    /\ nav.plSel # NoSel
    /\ nav.plSel < nav.cpls
    /\ \E r \in VideoLoads :
           nav' = IF r = LoadErr THEN [nav EXCEPT !.page = 0]
                  ELSE VideosLoaded([nav EXCEPT !.view = "PlaylistVideos", !.page = 0,
                                                !.origin = "SubscriptionPlaylists"], r)
    /\ UNCHANGED notNav

\* SubscriptionPlaylists, Left, '1' or '2'
NavChannelPlaylistsTab ==
    /\ nav.view = "SubscriptionPlaylists"
    /\ \E key \in {"Left", "1", "2"} :
           nav' = CASE key = "1" ->
                         [nav EXCEPT !.tab = 0, !.view = "SubscriptionVideos",
                                     !.page = 0, !.vidSel = 0]
                    [] key = "2" ->
                         [nav EXCEPT !.tab = 1, !.view = "SubscriptionShorts",
                                     !.page = 0, !.vidSel = 0]
                    [] OTHER ->
                         IF nav.tab = 0 THEN nav
                         ELSE [nav EXCEPT !.tab = nav.tab - 1,
                                          !.page = 0, !.vidSel = 0,
                                          !.view = CASE nav.tab = 1 -> "SubscriptionVideos"
                                                     [] nav.tab = 2 -> "SubscriptionShorts"
                                                     [] OTHER -> nav.view]
    /\ UNCHANGED notNav

\* SubscriptionPlaylists, 'r'
NavChannelPlaylistsRefresh ==
    /\ nav.view = "SubscriptionPlaylists"
    /\ \E r \in Loads :
           nav' = IF r = LoadErr \/ ~nav.chan THEN nav
                  ELSE [nav EXCEPT !.cpls = r, !.plSel = Reselected(nav.plSel, r)]
    /\ UNCHANGED notNav

\* `channel_tab = ..; current_page = 0; video_list_state.select(Some(0))`
Tabbed(v, tab) == [v EXCEPT !.tab = tab, !.page = 0, !.vidSel = 0]

\* the answers to the load a tab key sends when it goes to this tab: the
\* playlists of the channel for the third tab, the videos of the channel for
\* the first two when the lists are empty, and none without a selected channel
TabPlaylistLoads(v, tab) == IF v.chan /\ tab = 2 THEN Loads ELSE {LoadErr}

TabChannelLoads(v, tab) ==
    IF /\ v.chan
       /\ \/ tab = 0 /\ v.videos = 0
          \/ tab = 1 /\ v.videos = 0 /\ v.shorts = 0
    THEN ChannelLoads ELSE {<<LoadErr, LoadErr>>}

\* the tab a key of the channel views goes to
TabOfKey(v, key) ==
    CASE key = "Left" -> IF v.tab > 0 THEN v.tab - 1 ELSE v.tab
      [] key = "Right" -> IF v.tab < 2 THEN v.tab + 1 ELSE v.tab
      [] key = "1" -> 0
      [] key = "2" -> 1
      [] OTHER -> 2

\* the view SubscriptionVideos, SubscriptionShorts and PlaylistVideos go to on
\* the tab keys; only the first two let the keys through. The videos are
\* loaded again only when the lists are empty.
TabView(v, tab, r, c) ==
    IF ~v.chan THEN Tabbed(v, tab)
    ELSE CASE tab = 0 ->
                  IF v.videos # 0
                  THEN [Tabbed(v, 0) EXCEPT !.view = "SubscriptionVideos"]
                  ELSE ChannelVideosLoaded(
                           [Tabbed(v, 0) EXCEPT !.view = "SubscriptionVideos"], c)
           [] tab = 1 ->
                  IF v.shorts # 0 \/ v.videos # 0
                  THEN [Tabbed(v, 1) EXCEPT !.view = "SubscriptionShorts"]
                  ELSE ChannelVideosLoaded(
                           [Tabbed(v, 1) EXCEPT !.view = "SubscriptionShorts"], c)
           [] OTHER -> ChannelPlaylistsLoaded(
                           [Tabbed(v, 2) EXCEPT !.view = "SubscriptionPlaylists"], r)

\* SubscriptionVideos or SubscriptionShorts: Left, Right, '1', '2' or '3'
NavVideosTab ==
    /\ nav.view \in {"SubscriptionVideos", "SubscriptionShorts"}
    /\ \E key \in {"Left", "Right", "1", "2", "3"} :
       \E r \in (IF key = "3" THEN TabPlaylistLoads(nav, 2)
                 ELSE IF key \in {"Left", "Right"}
                      THEN TabPlaylistLoads(nav, TabOfKey(nav, key))
                      ELSE {LoadErr}),
          c \in (IF key \in {"Left", "Right"}
                 THEN TabChannelLoads(nav, TabOfKey(nav, key))
                 ELSE {<<LoadErr, LoadErr>>}) :
           nav' = CASE key = "Left" ->
                         IF nav.tab > 0 THEN TabView(nav, nav.tab - 1, r, c) ELSE nav
                    [] key = "Right" ->
                         IF nav.tab < 2 THEN TabView(nav, nav.tab + 1, r, c) ELSE nav
                    [] key = "1" ->
                         IF nav.tab # 0
                         THEN [Tabbed(nav, 0) EXCEPT !.view = "SubscriptionVideos"]
                         ELSE nav
                    [] key = "2" ->
                         IF nav.tab # 1
                         THEN [Tabbed(nav, 1) EXCEPT !.view = "SubscriptionShorts"]
                         ELSE nav
                    [] OTHER ->
                         IF nav.tab # 2
                         THEN IF nav.chan
                              THEN ChannelPlaylistsLoaded(
                                       [Tabbed(nav, 2) EXCEPT
                                           !.view = "SubscriptionPlaylists"], r)
                              ELSE [Tabbed(nav, 2) EXCEPT !.view = "SubscriptionPlaylists"]
                         ELSE nav
    /\ UNCHANGED notNav

\* Esc that leaves channel_tab as it is on the way back to a channel's playlists
BackKeepsTab(v) ==
    CASE v.view \in {"SubscriptionVideos", "SubscriptionShorts"} ->
             [v EXCEPT !.view = "Subscriptions", !.chan = FALSE, !.tab = 0]
      [] v.view = "PlaylistVideos" ->
             IF v.chan
             THEN [v EXCEPT !.view = "SubscriptionPlaylists"]
             ELSE [v EXCEPT !.view = "Playlists"]
      [] OTHER -> [v EXCEPT !.view = "ChannelInput"]

\* where Esc goes from a list of videos: "Go back to previous view"
Back(v) ==
    CASE v.view \in {"SubscriptionVideos", "SubscriptionShorts"} ->
             [v EXCEPT !.view = "Subscriptions", !.chan = FALSE, !.tab = 0]
      [] v.view = "PlaylistVideos" ->
             IF v.chan
             THEN [v EXCEPT !.view = "SubscriptionPlaylists", !.tab = 2]
             ELSE [v EXCEPT !.view = "Playlists"]
      [] OTHER -> [v EXCEPT !.view = "ChannelInput"]

\* SubscriptionVideos, SubscriptionShorts, PlaylistVideos or ChannelVideos, Esc
NavVideosEsc ==
    /\ nav.view \in {"SubscriptionVideos", "SubscriptionShorts", "PlaylistVideos",
                     "ChannelVideos"}
    /\ nav' = [Back(nav) EXCEPT
                  !.esc = IF nav.view = "PlaylistVideos"
                          THEN [from |-> nav.origin, to |-> Back(nav).view]
                          ELSE nav.esc,
                  !.videos = 0, !.shorts = 0, !.page = 0]
    /\ UNCHANGED notNav

VideoViews == {"SubscriptionVideos", "SubscriptionShorts", "PlaylistVideos",
               "ChannelVideos"}

\* a list of videos, Up or Down: Down stops at the last row of the page
NavVideosMove ==
    /\ nav.view \in VideoViews
    /\ \E key \in {"Up", "Down"} :
           nav' = [nav EXCEPT !.vidSel =
                      Moved(nav.vidSel, PageLen(CurrentList(nav), nav.page), key)]
    /\ UNCHANGED notNav

\* the page keys each view lets through: in the channel tabs Left and Right
\* switch tabs, and in a playlist 'b' is not a page key
PageKeys(view) ==
    CASE view \in {"SubscriptionVideos", "SubscriptionShorts"} -> {"n", "b"}
      [] view = "PlaylistVideos" -> {"n", "Right", "Left"}
      [] OTHER -> {"n", "Right", "Left", "b"}

\* page keys that leave the selected row where it is
PagedKeepsRow(v, key) ==
    IF key \in {"n", "Right"}
    THEN IF TotalPages(CurrentList(v)) > 0 /\ v.page < TotalPages(CurrentList(v)) - 1
         THEN [v EXCEPT !.page = v.page + 1]
         ELSE v
    ELSE IF v.page > 0
         THEN [v EXCEPT !.page = v.page - 1]
         ELSE v

\* 'n' and Right: `if current_page < total_pages.saturating_sub(1)`;
\* 'b' and Left: `if current_page > 0`
Paged(v, key) ==
    IF key \in {"n", "Right"}
    THEN IF TotalPages(CurrentList(v)) > 0 /\ v.page < TotalPages(CurrentList(v)) - 1
         THEN [v EXCEPT !.page = v.page + 1, !.vidSel = 0]
         ELSE v
    ELSE IF v.page > 0
         THEN [v EXCEPT !.page = v.page - 1, !.vidSel = 0]
         ELSE v

\* a list of videos, a page key
NavVideosPage ==
    /\ nav.view \in VideoViews
    /\ \E key \in PageKeys(nav.view) : nav' = Paged(nav, key)
    /\ UNCHANGED notNav

\* the video Enter, ' ', 'p' and 'd' act on: `current_list[actual_index]`
\* behind `selected < page_videos.len()` and `actual_index < current_list.len()`
Acted(v) ==
    IF /\ v.vidSel # NoSel
       /\ v.vidSel < PageLen(CurrentList(v), v.page)
       /\ v.page * VideosPerPage + v.vidSel < CurrentList(v)
    THEN [v EXCEPT !.acted = IF v.page * VideosPerPage + v.vidSel < CurrentList(v)
                             THEN "inside" ELSE "outside"]
    ELSE v

\* a list of videos, Enter, ' ' or 'p' (play) or 'd' (download)
NavVideosAct ==
    /\ nav.view \in VideoViews
    /\ nav' = Acted(nav)
    /\ UNCHANGED notNav

\* whether 'r' in this view sends a load: the channel views need the selected
\* channel, a playlist needs the selected playlist to be inside the list it
\* is looked up in
Refreshable(v) ==
    CASE v.view \in {"SubscriptionVideos", "SubscriptionShorts"} -> v.chan
      [] v.view = "PlaylistVideos" ->
             /\ v.plSel # NoSel
             /\ \/ v.chan /\ v.plSel < v.cpls
                \/ v.plSel < v.pls
      [] OTHER -> TRUE

\* a list of videos, 'r': a load answered Ok replaces the lists and goes to the
\* first row of the first page
NavVideosRefresh ==
    /\ nav.view \in VideoViews
    /\ \E r \in (IF Refreshable(nav) /\ nav.view \in {"PlaylistVideos", "ChannelVideos"}
                 THEN VideoLoads ELSE {LoadErr}),
          c \in (IF Refreshable(nav) /\ nav.view \in {"SubscriptionVideos",
                                                      "SubscriptionShorts"}
                 THEN ChannelLoads ELSE {<<LoadErr, LoadErr>>}) :
           nav' = CASE ~Refreshable(nav) -> nav
                    [] nav.view \in {"SubscriptionVideos", "SubscriptionShorts"} ->
                         IF c[1] = LoadErr THEN nav
                         ELSE [ChannelVideosLoaded(nav, c) EXCEPT !.page = 0]
                    [] OTHER ->
                         IF r = LoadErr THEN nav
                         ELSE [VideosLoaded(nav, r) EXCEPT !.page = 0]
    /\ UNCHANGED notNav

NextNav ==
    \/ NavMenuSubscriptions
    \/ NavMenuPlaylists
    \/ NavMenuChannel
    \/ NavInputBack
    \/ NavInputEnter
    \/ NavSubscriptionsBack
    \/ NavSubscriptionsMove
    \/ NavSubscriptionsEnter
    \/ NavSubscriptionsRefresh
    \/ NavPlaylistsBack
    \/ NavPlaylistsMove
    \/ NavPlaylistsEnter
    \/ NavPlaylistsRefresh
    \/ NavChannelPlaylistsBack
    \/ NavChannelPlaylistsMove
    \/ NavChannelPlaylistsEnter
    \/ NavChannelPlaylistsTab
    \/ NavChannelPlaylistsRefresh
    \/ NavVideosTab
    \/ NavVideosEsc
    \/ NavVideosMove
    \/ NavVideosPage
    \/ NavVideosAct
    \/ NavVideosRefresh

SpecNav == InitNav /\ [][NextNav]_vars

\* C29: Esc in the PlaylistVideos view returns to the list the playlist was
\* opened from: to Playlists when it was opened from the user's playlists, to
\* SubscriptionPlaylists only when it was opened from a channel's playlists tab
C29_EscReturnsToOrigin ==
    nav.esc # NoEsc => nav.esc.to = nav.esc.from
----------------------------------------------------------------------------
(* player.rs: play_video and its two fallbacks *)

\* the format each attempt asks yt-dlp for: FORMAT_SELECTOR, the fallback
\* format, and no --format argument at all
Formats == <<"preferred", "best[height<=1080]/best", "default">>

\* how a yt-dlp process exits: status.code() (NoCode for None, a process ended
\* by a signal) and what its stderr held
NoCode == -1

ExitCodes == {0, 1, 2, 120, NoCode}

Stderrs == {"empty", "format", "other"}

Exits == [code : ExitCodes, stderr : Stderrs]

\* every failure is retried with the next format
RetriesAnyFailure(k, o) == k < 3 /\ o.code # 0

\* whether the k-th attempt, having exited as o, hands over to the next one
Retries(k, o) ==
    CASE k = 1 -> o.code = 120 /\ o.stderr \in {"format", "empty"}
      [] k = 2 -> o.code = 120
      [] OTHER -> FALSE

\* the state of everything but the play_video call
notPlay == <<mainVars, authVars, dlVars, depVars, nav, lateVars>>

\* the UI calls play_video on a video
InitPlay ==
    /\ AuthStart({Rec("A", NULL, NoTime)}, Horizon)
    /\ main = "ui"
    /\ env = [id |-> TRUE, secret |-> TRUE, dir |-> TRUE]
    /\ exit = "none"
    /\ NoDownloads
    /\ NoDeps
    /\ NoNav
    /\ NoLate
    /\ play = [pc |-> "deps", attempt |-> 0, launched |-> <<>>, exits |-> <<>>,
               live |-> 0, result |-> "none"]

\* the call returns r
PlayReturn(v, r) == [v EXCEPT !.pc = "returned", !.result = r]

\* check_mpv/ensure_mpv and check_ytdlp/ensure_ytdlp, each chained with `?`
PlayDeps ==
    /\ play.pc = "deps"
    /\ \E ok \in BOOLEAN :
           play' = IF ok THEN [play EXCEPT !.pc = "launch", !.attempt = 1]
                   ELSE PlayReturn(play, "err")
    /\ UNCHANGED notPlay

\* TokioCommand::new(&ytdlp_cmd) ... .spawn()?
PlaySpawn ==
    /\ play.pc = "launch"
    /\ \E ok \in BOOLEAN :
           play' = IF ok
                   THEN [play EXCEPT !.pc = "running",
                                     !.launched = Append(@, Formats[play.attempt]),
                                     !.live = @ + 1]
                   ELSE PlayReturn(play, "err")
    /\ UNCHANGED notPlay

\* ytdlp.wait().await? and the branches on the exit status
PlayWait ==
    /\ play.pc = "running"
    /\ \E waited \in BOOLEAN, o \in Exits :
           play' = IF ~waited THEN PlayReturn(play, "err")
                   ELSE LET v == [play EXCEPT !.exits = Append(@, o), !.live = @ - 1]
                        IN  CASE o.code = 0 -> PlayReturn(v, "ok")
                              [] Retries(play.attempt, o) ->
                                     [v EXCEPT !.pc = "launch", !.attempt = @ + 1]
                              [] OTHER -> PlayReturn(v, "err")
    /\ UNCHANGED notPlay

NextPlay == PlayDeps \/ PlaySpawn \/ PlayWait

\* every await of the call completes: a spawned yt-dlp exits
SpecPlay == InitPlay /\ [][NextPlay]_vars /\ WF_vars(NextPlay)

\* the launches of the call so far are the first formats in their order, at
\* most one yt-dlp runs, each launch after the first follows an exit with code
\* 120 (and, for the second, a format error or an empty stderr), a successful
\* exit is the last one and gives Ok, and a failed third attempt gives Err
ChainShape ==
    LET n == Len(play.launched)
        m == Len(play.exits)
    IN  /\ n <= 3
        /\ play.launched = SubSeq(Formats, 1, n)
        /\ play.live \in {0, 1}
        /\ m + play.live <= n
        /\ \A k \in 2..n :
               /\ k - 1 <= m
               /\ play.exits[k - 1].code = 120
               /\ k = 2 => play.exits[1].stderr \in {"format", "empty"}
        /\ \A k \in 1..m :
               play.exits[k].code = 0 =>
                   /\ k = n
                   /\ play.pc = "returned"
                   /\ play.result = "ok"
        /\ play.result = "ok" => m = n /\ play.exits[m].code = 0
        /\ (m = 3 /\ play.exits[3].code # 0) =>
               play.pc = "returned" /\ play.result = "err"

\* C30: play_video launches yt-dlp at most three times, one after another, in
\* the order preferred selector, "best[height<=1080]/best", default format; a
\* later attempt follows only an exit with code 120 of the previous one (the
\* first also with a format error or an empty stderr); the first success ends
\* the chain with Ok, a failure of the third with Err, and the call returns
C30_ChainOfThree == []ChainShape /\ <>(play.pc = "returned")

\* all three attempts were launched and the third failed
C30_Witness ==
    /\ Len(play.exits) = 3
    /\ play.exits[3].code # 0
    /\ play.result = "err"
----------------------------------------------------------------------------
(* youtube.rs: add_to_history. A video id is a sequence of characters and *)
(* the file a sequence of lines, each a sequence of characters.           *)

\* the ids a caller can pass: parse_ytdlp_output takes the id as the text before
\* the first '|' of a line, untrimmed and possibly empty
VideoIds == {<<>>, <<" ", "a">>, <<"a">>, <<"b">>, <<"c">>, <<"d">>}

\* str::trim
RECURSIVE TrimStart(_)
TrimStart(s) == IF s # <<>> /\ Head(s) = " " THEN TrimStart(Tail(s)) ELSE s

RECURSIVE TrimEnd(_)
TrimEnd(s) ==
    IF s # <<>> /\ s[Len(s)] = " " THEN TrimEnd(SubSeq(s, 1, Len(s) - 1)) ELSE s

Trim(s) == TrimEnd(TrimStart(s))

\* `.map(|line| line.trim()).filter(|line| !line.is_empty() && line != video_id)`
RECURSIVE Kept(_, _)
Kept(lines, v) ==
    IF lines = <<>> THEN <<>>
    ELSE LET l == Trim(Head(lines))
         IN  IF l # <<>> /\ l # v THEN <<l>> \o Kept(Tail(lines), v)
             ELSE Kept(Tail(lines), v)

\* the lines add_to_history writes: the kept lines under the new id, truncated
NewHistory(lines, v) ==
    LET all == <<v>> \o Kept(lines, v)
    IN  IF Len(all) > HistoryLimit THEN SubSeq(all, 1, HistoryLimit) ELSE all

\* the lines of the file as read_to_string(..).lines() gives them
Lines(f) == IF f = NoFile THEN <<>> ELSE f

\* the state of everything but the history
notHist == <<mainVars, authVars, dlVars, depVars, nav, play, upd>>

InitHistory ==
    /\ AuthStart({Rec("A", NULL, NoTime)}, Horizon)
    /\ main = "ui"
    /\ env = [id |-> TRUE, secret |-> TRUE, dir |-> TRUE]
    /\ exit = "none"
    /\ NoDownloads
    /\ NoDeps
    /\ NoNav
    /\ NoPlay
    /\ NoHistory
    /\ NoUpdates

\* add_to_history(v): Err before the file is created, Ok with all lines
\* written, or Err after File::create with only the first k lines written
AddToHistory ==
    /\ hcall.n < MaxAdds
    /\ \E v \in VideoIds, o \in {"ok", "early", "late"} :
           LET new == NewHistory(Lines(hist), v)
           IN  /\ hcall' = [v |-> v, before |-> hist, ok |-> o = "ok", n |-> hcall.n + 1]
               /\ hist' = CASE o = "ok" -> new
                            [] o = "early" -> hist
                            [] OTHER -> SubSeq(new, 1, Len(new) - 1)
    /\ UNCHANGED notHist

NextHistory == AddToHistory

SpecHistory == InitHistory /\ [][NextHistory]_vars

\* the lines of s other than v, in their order
RECURSIVE Without(_, _)
Without(s, v) ==
    IF s = <<>> THEN <<>>
    ELSE IF Head(s) = v THEN Without(Tail(s), v)
         ELSE <<Head(s)>> \o Without(Tail(s), v)

\* C31: after a successful add_to_history(v) the first line of the file is v, v
\* occurs once, no line is empty, the file has at most HistoryLimit lines, and
\* the other lines are the previous lines other than v, in their order, cut at
\* the end
C31_HistoryIsUpdated ==
    hcall.ok =>
        LET rest == Without(Lines(hcall.before), hcall.v)
            n == Len(hist)
        IN  /\ hist # NoFile
            /\ n >= 1 /\ n <= HistoryLimit
            /\ hist[1] = hcall.v
            /\ Cardinality({k \in 1..n : hist[k] = hcall.v}) = 1
            /\ \A k \in 1..n : hist[k] # <<>>
            /\ n - 1 = (IF Len(rest) < HistoryLimit - 1 THEN Len(rest)
                        ELSE HistoryLimit - 1)
            /\ Tail(hist) = SubSeq(rest, 1, n - 1)
----------------------------------------------------------------------------
(* deps.rs: the daily update check in ensure_ytdlp *)

\* dirs::data_local_dir() is None, or it is Some and its rustyoutube directory
\* is missing or present; no code of a non-Windows build creates the directory
DataDirs == {"none", "missing", "present"}

\* the state of everything but the update check
notUpd == <<mainVars, authVars, dlVars, depVars, nav, play, histVars>>

InitUpdates ==
    /\ AuthStart({Rec("A", NULL, NoTime)}, Horizon)
    /\ Constructed
    /\ NoDownloads
    /\ NoDeps
    /\ NoNav
    /\ NoPlay
    /\ NoHistory
    /\ \E d \in DataDirs, st \in {NoStamp, Garbage, 0} :
           /\ d # "present" => st = NoStamp
           /\ upd = [data |-> d, stamp |-> st, t |-> 0, checks |-> <<>>,
                     call |-> NoEnsure]

\* should_check_for_updates
ShouldCheck(u) ==
    CASE u.data = "none" -> FALSE
      [] u.stamp \in {NoStamp, Garbage} -> TRUE
      [] OTHER -> (u.t - u.stamp) > OneDay

\* update_last_check_time(..).ok(): fs::write fails without the directory, and
\* the error is dropped
StampWritten(u) == IF u.data = "present" THEN u.t ELSE u.stamp

\* the wall clock advances
UpdTick ==
    /\ upd.t < MaxUpdTime
    /\ upd' = [upd EXCEPT !.t = @ + 1]
    /\ UNCHANGED notUpd

\* ensure_ytdlp: when yt-dlp is found, the update check and the new timestamp;
\* when it is not, the install attempts, which check for no update
EnsureYtdlpCall ==
    /\ upd.call.n < MaxEnsures
    /\ \E found \in BOOLEAN :
           LET check == found /\ ShouldCheck(upd)
           IN  upd' = [upd EXCEPT
                          !.stamp = IF check THEN StampWritten(upd) ELSE @,
                          !.checks = IF check THEN Append(@, upd.t) ELSE @,
                          !.call = [n |-> upd.call.n + 1, found |-> found,
                                    recorded |-> upd.stamp \notin {NoStamp, Garbage},
                                    checked |-> check]]
    /\ UNCHANGED notUpd

NextUpdates == UpdTick \/ EnsureYtdlpCall

SpecUpdates == InitUpdates /\ [][NextUpdates]_vars

\* C32: after ensure_ytdlp performed an update check no later call performs
\* another until more than 24 hours have passed, and a call that finds the tool
\* with no recorded previous check performs the check
C32_OncePerDay ==
    /\ \A k \in 2..Len(upd.checks) : upd.checks[k] - upd.checks[k - 1] > OneDay
    /\ (upd.call.n > 0 /\ upd.call.found /\ ~upd.call.recorded) => upd.call.checked
----------------------------------------------------------------------------
(* The poll loop, once more *)

\* the body the call holds is the answer to its latest poll, and it has neither
\* an error nor an access_token
EmptyPollHeld ==
    /\ LastPollAnswered("ok")
    /\ body.seen
    /\ body.error = NULL
    /\ body.access_token = NULL

\* C33: a poll answered with neither an error nor an access_token keeps the
\* session in AwaitingUser: nothing is written, the call does not return on it
\* and is back at the deadline test; the next poll follows after one sleep of
\* the same interval, and the call ends after such an answer only by expiry
C33_EmptyAnswerKeepsWaiting ==
    /\ EmptyPollHeld
         => /\ pc = "A_check"
            /\ result = NoResult
            /\ trail[Len(trail)] = "AwaitingUser"
            /\ saves = <<>>
            /\ file = fileStart
            /\ SleepsAfter(PollsSent) = <<>>
    /\ \A k \in 2..PollsSent :
         NthPoll(k - 1).res = "ok"
           => SleepsAfter(k - 1) = <<[d |-> interval, after |-> k - 1]>>
    /\ (LastPollAnswered("ok") /\ pc = "done" /\ saves = <<>>)
         => /\ result = Err("device_code_expired")
            /\ now > deadline
            /\ file = fileStart

\* an empty answer was passed over and the next poll is on its way
C33_Witness ==
    /\ pc = "A_poll"
    /\ PollsSent = 2
    /\ NthPoll(1).res = "ok"
    /\ interval = 1
----------------------------------------------------------------------------
(* The probes of one get_access_token call *)

\* authenticate(), entered as the fallback, has sent its probe
SecondProbeSent ==
    /\ auth > 0
    /\ Len(reqs) >= auth
    /\ reqs[auth].kind = "probe"

\* C34: one get_access_token call sends the probe at most twice: once itself
\* and once more in the authenticate() fallback, and then only after its own
\* probe failed and the refresh was unavailable or failed; the second probe is
\* for the re-read record, and when it is answered 2xx the call returns the
\* cached access_token and sends no device-code POST
C34_AtMostTwoProbes ==
    entry = GAT =>
        /\ Probes <= 2
        /\ \A i \in 1..Len(reqs) : reqs[i].kind = "probe" => (i = 1 \/ i = auth)
        /\ SecondProbeSent =>
               /\ auth >= 2
               /\ reqs[1].kind = "probe"
               /\ reqs[1].res \in {"status", "transport"}
               /\ \/ fileStart.refresh_token = NULL /\ RefreshPosts = 0 /\ auth = 2
                  \/ /\ auth = 3
                     /\ reqs[2].kind = "refresh"
                     /\ reqs[2].res # "ok" \/ ~NoSaveFailed
               /\ tok = fileStart
               /\ reqs[auth].arg = tok.access_token
               /\ reqs[auth].res = "ok" =>
                      /\ pc = "done"
                      /\ result = Ok(tok.access_token, "cache")
                      /\ DevicePosts = 0
                      /\ Len(reqs) = auth

\* the probe failed, the refresh failed, and the second probe succeeded
C34_Witness ==
    /\ pc = "done"
    /\ entry = GAT
    /\ Probes = 2
    /\ RefreshPosts = 1
    /\ result.src = "cache"
----------------------------------------------------------------------------
(* The record a grant leaves *)

\* the session of the call in progress ended Granted
Granted == PollGranted /\ trail # <<>> /\ trail[Len(trail)] = "Granted"

\* C35: a device-flow grant overwrites the whole record: the persisted
\* refresh_token is the one of the grant response, null when the response has
\* none, whatever refresh_token was stored before
C35_GrantOverwritesRecord ==
    Granted =>
        /\ file.kind = "record"
        /\ file.access_token = body.access_token
        /\ file.refresh_token = body.refresh_token

\* a record with a refresh_token was replaced by a grant that carried none
C35_Witness ==
    /\ Granted
    /\ fileStart.kind = "record"
    /\ fileStart.refresh_token = "R"
    /\ body.refresh_token = NULL
    /\ file.refresh_token = NULL
----------------------------------------------------------------------------
(* A refresh that leaves no record *)

\* the refresh of the call was answered 2xx without an access_token
RefreshBodyUnusable ==
    \E i \in 1..Len(reqs) : reqs[i].kind = "refresh" /\ reqs[i].res = "no_access_token"

\* the refresh of the call was answered with a token and save_token failed on it
RefreshNotSaved ==
    /\ \E i \in 1..Len(reqs) : reqs[i].kind = "refresh" /\ reqs[i].res = "ok"
    /\ saves # <<>>
    /\ saves[1] # "ok"

RefreshUnpersisted == entry = GAT /\ (RefreshBodyUnusable \/ RefreshNotSaved)

\* the save_token calls of the call that followed its refresh
SavesAfterRefresh == IF RefreshNotSaved THEN Tail(saves) ELSE saves

\* C36 as stated: after such a refresh get_access_token returns no refreshed
\* token, the stored record keeps its refresh_token, and the call goes on to
\* the device flow
C36_AsStated ==
    RefreshUnpersisted =>
        /\ result.src # "refresh"
        /\ SavesAfterRefresh = <<>> =>
               /\ file.kind = "record"
               /\ file.refresh_token = fileStart.refresh_token
        /\ pc = "done" => DevicePosts = 1

\* C36, amended: after such a refresh get_access_token returns no refreshed
\* token and goes on to authenticate(), which sends the device-code POST unless
\* its own probe of the stored record is answered 2xx; the token file is as it
\* was before the call, or unreadable when the failed write had truncated it
C36_RefreshLeavesNoToken ==
    RefreshUnpersisted =>
        /\ result.src # "refresh"
        /\ SavesAfterRefresh = <<>> =>
               file = (IF RefreshNotSaved /\ saves[1] = "fail_truncated"
                       THEN Corrupt ELSE fileStart)
        /\ pc = "done" =>
               /\ auth > 0
               /\ \/ DevicePosts = 1
                  \/ /\ DevicePosts = 0
                     /\ SecondProbeSent
                     /\ reqs[auth].res = "ok"
                     /\ result = Ok(fileStart.access_token, "cache")

\* the write of the refreshed record failed and the call ended in the device flow
C36_Witness ==
    /\ RefreshUnpersisted
    /\ RefreshNotSaved
    /\ pc = "done"
    /\ DevicePosts = 1
    /\ result.src = "grant"

----------------------------------------------------------------------------
(* Several downloads on the one handle slot *)

\* the children that run and that nothing can wait for or cancel any more:
\* not a local of their own download_video before the store, not in the slot,
\* and not the child their own download_video took out to wait for
Unawaited ==
    {c \in Running : dl[c].pc # "spawned" /\ slot # c /\ dl[c].held # c}

\* the downloads that wait for the child of another download
WaitsForForeign == {d \in Tasks : dl[d].held \notin {0, d}}

\* C37: with several downloads at once on the shared slot, download_video
\* returns "Download was cancelled" only when a press of 'c' took the child of
\* that download out of the slot, and no child is taken out of the slot by
\* another download or left running with nothing that awaits it.
C37_DownloadsDoNotInterfere ==
    /\ \A d \in Tasks : dl[d].result = "cancelled" => d \in cancel.took
    /\ WaitsForForeign = {}
    /\ Unawaited = {}

----------------------------------------------------------------------------
(* The channel tabs *)

\* the view each tab of a channel shows
ViewOfTab == <<"SubscriptionVideos", "SubscriptionShorts", "SubscriptionPlaylists">>

\* C38: after any sequence of key presses and load results channel_tab is 0, 1
\* or 2, and in the views SubscriptionVideos, SubscriptionShorts and
\* SubscriptionPlaylists it is 0, 1 and 2 respectively.
C38_TabMatchesView ==
    /\ nav.tab \in 0..2
    /\ \A t \in 0..2 : nav.view = ViewOfTab[t + 1] => nav.tab = t

\* the playlists tab, entered by Esc from a playlist that was opened from the
\* user's own playlists while a channel was still selected
C38_Witness ==
    /\ nav.view = "SubscriptionPlaylists"
    /\ nav.tab = 2
    /\ nav.esc = [from |-> "Playlists", to |-> "SubscriptionPlaylists"]

----------------------------------------------------------------------------
(* The page and the selected row of a list of videos *)

\* the rows of the page that is shown
RowsShown == PageLen(CurrentList(nav), nav.page)

\* C39: in a view of videos, after any sequence of key presses and load
\* results, current_page is 0 when the list shown is empty and otherwise
\* current_page * VIDEOS_PER_PAGE is smaller than its length; the selected row
\* is 0 or smaller than the number of videos on the current page; and play and
\* download only ever act on an index inside the list.
C39_PageAndRowInsideList ==
    /\ nav.view \in VideoViews =>
           /\ IF CurrentList(nav) = 0 THEN nav.page = 0
              ELSE nav.page * VideosPerPage < CurrentList(nav)
           /\ nav.vidSel # NoSel
           /\ nav.vidSel = 0 \/ nav.vidSel < RowsShown
    /\ nav.acted # "outside"

\* a video of the second page was played or downloaded, and the last row of
\* that page is selected
C39_Witness ==
    /\ nav.view \in VideoViews
    /\ nav.page = 1
    /\ RowsShown > 0
    /\ nav.vidSel = RowsShown - 1
    /\ nav.acted = "inside"

====
